---- MODULE Spec2Model ----
(***************************************************************************)
(* Model of the scheduled-analyses pipeline of sagestocks:                 *)
(*   api/cron/scheduled-analyses.ts   the cron handler (chunked cycle)     *)
(*   lib/orchestration/queue-storage.ts  the checkpointed queue in Redis   *)
(*   lib/orchestration/orchestrator.ts   collect, build, processQueue      *)
(*   lib/shared/error-handler.ts         setAnalysisError                  *)
(***************************************************************************)
EXTENDS Integers, Sequences, FiniteSets, TLC

(***************************************************************************)
(* Bounds of the model.                                                    *)
(***************************************************************************)
MaxInvocations == 3
MaxChunkSize == 2
MaxDryTickers == 15
MaxBuildPages == 2
MaxFailures == 3
MaxStoreOps == 4
MaxRetryTenths == 615
MaxLiveTickers == 3

(***************************************************************************)
(* Program constants.                                                      *)
(***************************************************************************)
DEFAULT_CHUNK_SIZE == 8
ANALYSIS_MAX_RETRIES == 3
BROADCAST_MAX_RETRIES == 2
API_CALLS_PER_ANALYSIS == 17
UNKNOWN_TIER_PRIORITY == 99
DEFAULT_ANALYSIS_DELAY_MS == 8000
RETRY_AFTER_CAP == 60

(***************************************************************************)
(* Strings.  A ticker is a sequence of characters; a character is a letter *)
(* (l > 0) in upper or lower case, or the space (l = 0).                   *)
(***************************************************************************)
Space == [l |-> 0, up |-> FALSE]

Lower(k) == [l |-> k, up |-> FALSE]

Upper(k) == [l |-> k, up |-> TRUE]

SetMin(S) == CHOOSE x \in S : \A y \in S : x <= y

SetMax(S) == CHOOSE x \in S : \A y \in S : x >= y

toUpperCase(s) ==
  [i \in 1..Len(s) |-> IF s[i].l = 0 THEN s[i] ELSE [s[i] EXCEPT !.up = TRUE]]

trim(s) ==
  LET solid == {i \in 1..Len(s) : s[i].l # 0}
  IN IF solid = {} THEN <<>> ELSE SubSeq(s, SetMin(solid), SetMax(solid))

(* a variant of the key that keeps surrounding spaces *)
NormalizeTickerNoTrim(ticker) == toUpperCase(ticker)

(* orchestrator.ts:164  ticker.toUpperCase().trim() *)
NormalizeTicker(ticker) == trim(toUpperCase(ticker))

(***************************************************************************)
(* Tiers (orchestrator.ts:32-37) and the priority of a subscriber          *)
(* (orchestrator.ts:209  TIER_PRIORITY[s.tier] || 99).                     *)
(***************************************************************************)
TIER_PRIORITY == [Pro |-> 1, Analyst |-> 2, Starter |-> 3, Free |-> 4]

(* a variant that ranks an unknown tier before the known ones *)
TierPriorityUnknownFirst(tier) ==
  IF tier \in DOMAIN TIER_PRIORITY THEN TIER_PRIORITY[tier] ELSE 0

TierPriority(tier) ==
  IF tier \in DOMAIN TIER_PRIORITY THEN TIER_PRIORITY[tier] ELSE UNKNOWN_TIER_PRIORITY

(***************************************************************************)
(* collectStockRequests (orchestrator.ts:86-191).  users is the sequence   *)
(* returned by getAllUsers; failing is the set of user ids whose           *)
(* collection throws (token decryption, database retrieve or query) or has *)
(* no data source: the try/catch of lines 94-186 omits such a user whole,  *)
(* since the pages are pushed only after every query page was fetched.     *)
(* The ticker map is kept as the sequence of its entries in insertion      *)
(* order, which is the iteration order of a JavaScript Map.                *)
(***************************************************************************)
Subscriber(user, page) ==
  [userId |-> user.id,
   tier |-> IF user.subscriptionTier = "" THEN "Free" ELSE user.subscriptionTier,
   pageId |-> page.id,
   stockHistoryDbId |-> user.stockHistoryDbId]

MapHas(map, key) == \E i \in 1..Len(map) : map[i].ticker = key

MapPush(map, key, sub) ==
  IF MapHas(map, key)
  THEN LET i == CHOOSE j \in 1..Len(map) : map[j].ticker = key
       IN [map EXCEPT ![i].subscribers = Append(@, sub)]
  ELSE Append(map, [ticker |-> key, subscribers |-> <<sub>>])

RECURSIVE CollectPages(_, _, _, _)
CollectPages(map, user, pages, k) ==
  IF k > Len(pages) THEN map
  ELSE IF pages[k].ticker = <<>>
       THEN CollectPages(map, user, pages, k + 1)
       ELSE CollectPages(
              MapPush(map, NormalizeTicker(pages[k].ticker), Subscriber(user, pages[k])),
              user, pages, k + 1)

RECURSIVE CollectUsers(_, _, _, _)
CollectUsers(map, users, failing, u) ==
  IF u > Len(users) THEN map
  ELSE IF ~users[u].stockAnalysesDbId \/ users[u].id \in failing
       THEN CollectUsers(map, users, failing, u + 1)
       ELSE CollectUsers(CollectPages(map, users[u], users[u].pages, 1),
                         users, failing, u + 1)

collectStockRequests(users, failing) == CollectUsers(<<>>, users, failing, 1)

(***************************************************************************)
(* buildPriorityQueue (orchestrator.ts:199-233): one item per map entry,   *)
(* priority = the least tier index of its subscribers, then                *)
(* Array.prototype.sort by priority alone, which is stable.                *)
(***************************************************************************)
HighestPriority(subscribers) ==
  SetMin({TierPriority(subscribers[i].tier) : i \in 1..Len(subscribers)})

(* orchestrator.ts:212-217; requestedAt is new Date(), of which the
   representation is kept: a Date object here, a string after JSON *)
QueueItemOf(entry) ==
  [ticker |-> entry.ticker,
   priority |-> HighestPriority(entry.subscribers),
   subscribers |-> entry.subscribers,
   requestedAt |-> "Date"]

RECURSIVE InsertByPriority(_, _)
InsertByPriority(sorted, item) ==
  IF sorted = <<>> THEN <<item>>
  ELSE IF sorted[Len(sorted)].priority <= item.priority
       THEN Append(sorted, item)
       ELSE Append(InsertByPriority(SubSeq(sorted, 1, Len(sorted) - 1), item),
                   sorted[Len(sorted)])

RECURSIVE StableSortByPriority(_, _)
StableSortByPriority(items, k) ==
  IF k = 0 THEN <<>>
  ELSE InsertByPriority(StableSortByPriority(items, k - 1), items[k])

(* a variant that leaves the items in map order *)
buildPriorityQueueUnsorted(tickerMap) ==
  [i \in 1..Len(tickerMap) |-> QueueItemOf(tickerMap[i])]

buildPriorityQueue(tickerMap) ==
  StableSortByPriority([i \in 1..Len(tickerMap) |-> QueueItemOf(tickerMap[i])],
                       Len(tickerMap))

(***************************************************************************)
(* State.                                                                  *)
(*   users, CHUNK_SIZE, DRY_RUN, ANALYSIS_DELAY_MS, isMarketDay: the       *)
(*     environment of the day                                              *)
(*   status: the Status property of each subscriber's Notion page          *)
(*   failures: the external requests that have failed so far in the day    *)
(*   store: the Redis key analysis_queue:<date> of the day                 *)
(*   pc .. metrics: the handler invocation in progress and its locals      *)
(*   item: the subject processQueue is working on, with what happened:     *)
(*     its 0-based index, its subscribers, and per subscriber the status   *)
(*     before, whether the Analyzing write went through, what the last     *)
(*     syncToNotion call did, the result of broadcastToUser, the error     *)
(*     write of broadcastError and the archive write; the analysis calls   *)
(*     and backoffs, and what each call returned; whether the loop paused  *)
(*     after the item; whether the loop body is over                       *)
(*   response: the JSON answer of the last invocation                      *)
(*   inv, chunkNo, trail, runs, collections, collected: history of the day *)
(*     (invocations so far; the number of the running invocation counted   *)
(*     from the one that saved the queue; the iterations of processQueue   *)
(*     on that queue, each with its invocation number and index, in order; *)
(*     per ticker the times it was processed; the times the collector ran; *)
(*     the users the last collection read; the tickers whose analysis has  *)
(*     failed terminally)                                                  *)
(*   adminLog: the calls of notifyAdmin and notifyAdminBatch made by the   *)
(*     running invocation, in order                                        *)
(*   storeLog: the operations of queue-storage.ts called one after another *)
(*     on the key, each with its argument and what it returned or left     *)
(*   handlers: the locals of two invocations of the handler that run at    *)
(*     the same time                                                       *)
(*   syncLog: per subscriber of the last item broadcast, what each call of *)
(*     syncToNotion made by broadcastToUser returned, in attempt order     *)
(*   backoff: one pass through the retry branch of analyzeWithRetry: the   *)
(*     error text of the result, the attempt, and the delay it waits       *)
(***************************************************************************)
VARIABLES users, CHUNK_SIZE, DRY_RUN, ANALYSIS_DELAY_MS, isMarketDay,
          status, failures,
          store,
          pc, mode, queue, startIndex, itemsToProcess, i, endIndex, metrics,
          item, response,
          inv, chunkNo, trail, runs, collections, collected, failedSubjects,
          adminLog, storeLog, handlers, syncLog, backoff

envVars == <<users, CHUNK_SIZE, DRY_RUN, ANALYSIS_DELAY_MS, isMarketDay>>

notionVars == <<status>>

localVars == <<mode, queue, startIndex, itemsToProcess, i, endIndex, metrics>>

ghostVars == <<inv, chunkNo, trail, runs, collections, collected, failedSubjects, adminLog>>

sideVars == <<storeLog, handlers, syncLog, backoff>>

vars == <<envVars, notionVars, failures, store, pc, localVars, item, response, ghostVars,
          sideVars>>

Min2(a, b) == IF a <= b THEN a ELSE b

(* n more external requests fail, within the bound of the model *)
Fail(n) ==
  /\ failures + n <= MaxFailures
  /\ failures' = failures + n

FailedIn(ok) == Cardinality({k \in DOMAIN ok : ~ok[k]})

(* the admin notifications that are not delivered count as failures too *)
Undelivered(delivery) == Cardinality({k \in DOMAIN delivery : delivery[k] # "sent"})

UserIds == {users[u].id : u \in 1..Len(users)}

AllPages == UNION {{users[u].pages[k].id : k \in 1..Len(users[u].pages)} : u \in 1..Len(users)}

(***************************************************************************)
(* The users of a day.  A page id is <<user id, position>>.                *)
(***************************************************************************)
PagesOf(id, tickers) == [k \in 1..Len(tickers) |-> [id |-> <<id, k>>, ticker |-> tickers[k]]]

User(id, tier, analysesDb, historyDb, tickers) ==
  [id |-> id, subscriptionTier |-> tier, stockAnalysesDbId |-> analysesDb,
   stockHistoryDbId |-> historyDb, pages |-> PagesOf(id, tickers)]

(* "A" is requested by a Pro user as " a" and by a Free user, who also has "B". *)
ScenShared ==
  <<User(1, "Pro", TRUE, TRUE, <<<<Space, Lower(1)>>>>),
    User(2, "", TRUE, TRUE, <<<<Upper(1)>>, <<Upper(2)>>>>)>>

(* One user holds "A" under two records; a second user, who has no Stock
   History database, holds "b". *)
ScenDuplicate ==
  <<User(1, "Starter", TRUE, TRUE, <<<<Upper(1)>>, <<Lower(1), Space>>>>),
    User(2, "Analyst", TRUE, FALSE, <<<<Lower(2)>>>>)>>

(* Three subjects with one subscriber each, one user without a database. *)
ScenThree ==
  <<User(1, "Free", TRUE, TRUE, <<<<Upper(1)>>, <<Upper(2)>>, <<Upper(3)>>>>),
    User(2, "Pro", FALSE, FALSE, <<<<Upper(1)>>>>)>>

(* One user with n subjects. *)
ScenMany(n) == <<User(1, "Pro", TRUE, TRUE, [k \in 1..n |-> <<Upper(k)>>])>>

SmallScenarios == {ScenShared, ScenDuplicate, ScenThree}

LargeScenarios == {ScenMany(n) : n \in 0..MaxDryTickers}

(* The inputs of collectStockRequests and buildPriorityQueue: two users with
   up to MaxBuildPages records each.  The Ticker property of a record of
   the first user is empty or one of "A", "a", " a", "b "; of the second
   user, empty, "A" or "b ".  The first user is on the Pro tier or has no
   tier (Free), the second is an Analyst, so that map order and priority
   order differ for some inputs. *)
RawTickers ==
  {<<>>, <<Upper(1)>>, <<Lower(1)>>, <<Space, Lower(1)>>, <<Lower(2), Space>>}

OtherTickers == {<<>>, <<Upper(1)>>, <<Lower(2), Space>>}

PageLists(tickers) == UNION {[1..n -> tickers] : n \in 0..MaxBuildPages}

BuildScenarios ==
  {<<User(1, tier, TRUE, TRUE, t1), User(2, "Analyst", db, TRUE, t2)>> :
     tier \in {"Pro", ""}, db \in BOOLEAN,
     t1 \in PageLists(RawTickers), t2 \in PageLists(OtherTickers)}

ChunkSizes == (1..MaxChunkSize) \cup {DEFAULT_CHUNK_SIZE}

PrevStatuses == {"Complete", "Not started"}

(***************************************************************************)
(* Queue store (queue-storage.ts).                                         *)
(***************************************************************************)
NoQueue == [present |-> FALSE, items |-> <<>>, processedCount |-> 0, totalCount |-> 0,
            chunkSize |-> 0, expires |-> FALSE,
            createdAt |-> 0, marketContext |-> "none", lastChunkAt |-> 0]

(* new Date().toISOString() (queue-storage.ts:81 and 223): the clock, read
   as the number of invocations that had begun before the running one; the
   invocations of a day begin one after the other, so a later reading is
   never smaller *)
Now == inv

(* a variant of the update that writes the queue anew around the cursor *)
updateProcessedCountResave(st, processedCount) ==
  [st EXCEPT !.processedCount = processedCount, !.lastChunkAt = inv,
             !.createdAt = inv, !.expires = FALSE]

(* a variant of the text that keeps only the first item *)
JSONFirstItemOnly(q) ==
  [k \in 1..(IF Len(q) = 0 THEN 0 ELSE 1) |-> [q[k] EXCEPT !.requestedAt = "ISO string"]]

(* JSON.stringify (queue-storage.ts:93) then JSON.parse (queue-storage.ts:167
   and 219) of the items: strings, numbers and arrays come back as they
   were, in order; a Date is written by Date.prototype.toJSON as the ISO
   string of its instant and comes back as that string.  The store holds
   the text, kept here as what parsing it gives. *)
JSON(q) == [k \in 1..Len(q) |-> [q[k] EXCEPT !.requestedAt = "ISO string"]]

(* saveQueueToRedis, queue-storage.ts:65-125: SET of the key, then EXPIRE
   with QUEUE_TTL (lines 102-108), after which the key carries an expiry *)
saveQueueToRedis(q, chunkSize) ==
  [present |-> TRUE, items |-> JSON(q), processedCount |-> 0, totalCount |-> Len(q),
   chunkSize |-> chunkSize, expires |-> TRUE,
   createdAt |-> Now, marketContext |-> "context", lastChunkAt |-> 0]

(* loadQueueFromRedis, queue-storage.ts:136-183: the parsed value of the
   key, or null (NoQueue) when the key holds nothing *)
loadQueueFromRedis(st) == IF st.present THEN st ELSE NoQueue

(* a variant that adds to the cursor instead of replacing it *)
updateProcessedCountAdd(st, processedCount) ==
  [st EXCEPT !.processedCount = @ + processedCount]

(* a variant whose SET keeps the expiry of the key *)
updateProcessedCountKeepTtl(st, processedCount) ==
  [st EXCEPT !.processedCount = processedCount]

(* updateProcessedCount, queue-storage.ts:193-249: GET, then a plain SET of
   the whole value (lines 225-232) with no EXPIRE after it; a Redis SET
   without KEEPTTL or EX discards the expiry the key had *)
updateProcessedCount(st, processedCount) ==
  [st EXCEPT !.processedCount = processedCount, !.lastChunkAt = Now, !.expires = FALSE]

(***************************************************************************)
(* Metrics of one processQueue call (orchestrator.ts:262-273).             *)
(***************************************************************************)
SumSubscribers(q) ==
  LET RECURSIVE Sum(_)
      Sum(k) == IF k = 0 THEN 0 ELSE Sum(k - 1) + Len(q[k].subscribers)
  IN Sum(Len(q))

(* a variant that starts the count of analyzed subjects at the queue length *)
NewMetricsAllAnalyzed(q) ==
  [totalTickers |-> Len(q), totalSubscribers |-> SumSubscribers(q),
   analyzed |-> Len(q), failed |-> 0, totalBroadcasts |-> 0,
   successfulBroadcasts |-> 0, failedBroadcasts |-> 0, apiCallsSaved |-> 0]

NewMetrics(q) ==
  [totalTickers |-> Len(q), totalSubscribers |-> SumSubscribers(q),
   analyzed |-> 0, failed |-> 0, totalBroadcasts |-> 0,
   successfulBroadcasts |-> 0, failedBroadcasts |-> 0, apiCallsSaved |-> 0]

NoMetrics == NewMetrics(<<>>)

NoItem ==
  [index |-> -1, subscribers |-> <<>>, before |-> <<>>, analyzing |-> <<>>,
   calls |-> 0, backoffs |-> 0, analysis |-> "none", sync |-> <<>>, results |-> <<>>,
   errorWrites |-> <<>>, archive |-> <<>>, done |-> FALSE,
   outcomes |-> <<>>, delayed |-> FALSE, errorCalls |-> <<>>]

NoResponse == [code |-> 0]

(* no retry branch has been taken *)
NoBackoff == [error |-> [kind |-> "none"], attempt |-> 0, delayMs |-> -1]

(* an invocation that has not started *)
NoHandler ==
  [pc |-> "idle", mode |-> "none", queue |-> <<>>, startIndex |-> 0, itemsToProcess |-> 0,
   got |-> NoQueue, code |-> 0]

HandlerIds == {1, 2}

NoHandlers == [h \in HandlerIds |-> NoHandler]

Init ==
  /\ \E sc \in SmallScenarios \cup LargeScenarios, dry \in BOOLEAN, size \in ChunkSizes :
       /\ sc \in LargeScenarios => dry
       /\ sc \in SmallScenarios => size <= MaxChunkSize
       /\ users = sc
       /\ DRY_RUN = dry
       /\ CHUNK_SIZE = size
       /\ ANALYSIS_DELAY_MS = (IF sc = ScenThree THEN 0 ELSE DEFAULT_ANALYSIS_DELAY_MS)
       /\ \E prev \in (IF sc \in {ScenDuplicate, ScenThree} THEN {"Complete"}
                        ELSE PrevStatuses) :
            status = [p \in AllPages |-> prev]
  /\ isMarketDay \in BOOLEAN
  /\ failures = 0
  /\ store = NoQueue
  /\ pc = "idle"
  /\ mode = "none"
  /\ queue = <<>>
  /\ startIndex = 0
  /\ itemsToProcess = 0
  /\ i = 0
  /\ endIndex = 0
  /\ metrics = NoMetrics
  /\ item = NoItem
  /\ response = NoResponse
  /\ inv = 0
  /\ chunkNo = 0
  /\ trail = <<>>
  /\ runs = <<>>
  /\ collections = 0
  /\ collected = {}
  /\ failedSubjects = {}
  /\ adminLog = <<>>
  /\ storeLog = <<>>
  /\ handlers = NoHandlers
  /\ syncLog = <<>>
  /\ backoff = NoBackoff

(* the start of a day whose users are drawn from BuildScenarios *)
InitBuild ==
  /\ users \in BuildScenarios
  /\ DRY_RUN = TRUE
  /\ CHUNK_SIZE = DEFAULT_CHUNK_SIZE
  /\ ANALYSIS_DELAY_MS = DEFAULT_ANALYSIS_DELAY_MS
  /\ isMarketDay = TRUE
  /\ status = [p \in AllPages |-> "Not started"]
  /\ failures = 0
  /\ store = NoQueue
  /\ pc = "idle"
  /\ mode = "none"
  /\ queue = <<>>
  /\ startIndex = 0
  /\ itemsToProcess = 0
  /\ i = 0
  /\ endIndex = 0
  /\ metrics = NoMetrics
  /\ item = NoItem
  /\ response = NoResponse
  /\ inv = 0
  /\ chunkNo = 0
  /\ trail = <<>>
  /\ runs = <<>>
  /\ collections = 0
  /\ collected = {}
  /\ failedSubjects = {}
  /\ adminLog = <<>>
  /\ storeLog = <<>>
  /\ handlers = NoHandlers
  /\ syncLog = <<>>
  /\ backoff = NoBackoff

(***************************************************************************)
(* The cron handler (scheduled-analyses.ts:49-234).                        *)
(***************************************************************************)
(* lines 57-68: a wrong or missing secret is answered 401 *)
Unauthorized ==
  /\ pc = "idle"
  /\ response' = [code |-> 401]
  /\ UNCHANGED <<sideVars, envVars, notionVars, failures, store, pc, localVars, item, ghostVars>>

(* lines 73-86: weekends and holidays are answered without any work *)
MarketClosed ==
  /\ pc = "idle"
  /\ ~isMarketDay
  /\ response' = [code |-> 200, marketDay |-> FALSE]
  /\ UNCHANGED <<sideVars, envVars, notionVars, failures, store, pc, localVars, item, ghostVars>>

(* a variant that forgets the start of the chunk *)
ChunkEndFromZero(start, maxItems, len) == Min2(maxItems, len)

(* orchestrator.ts:254  endIndex = Math.min(startIndex + maxItems, queue.length) *)
ChunkEnd(start, maxItems, len) == Min2(start + maxItems, len)

(* processQueue, orchestrator.ts:254-273: the bounds of the chunk and fresh metrics *)
EnterProcessQueue(q, start, maxItems) ==
  /\ i' = start
  /\ endIndex' = ChunkEnd(start, maxItems, Len(q))
  /\ metrics' = NewMetrics(q)
  /\ pc' = "process"

(* lines 91-110: a queue exists, the next chunk starts at the stored cursor *)
HandlerResume ==
  /\ pc = "idle"
  /\ isMarketDay
  /\ inv < MaxInvocations
  /\ store.present
  /\ LET existingQueue == store
         start == existingQueue.processedCount
         remainingItems == existingQueue.totalCount - start
         n == Min2(CHUNK_SIZE, remainingItems)
     IN /\ mode' = "resume"
        /\ queue' = existingQueue.items
        /\ startIndex' = start
        /\ itemsToProcess' = n
        /\ EnterProcessQueue(existingQueue.items, start, n)
  /\ inv' = inv + 1
  /\ item' = NoItem
  /\ response' = NoResponse
  /\ chunkNo' = chunkNo + 1
  /\ adminLog' = <<>>
  /\ UNCHANGED <<sideVars, envVars, notionVars, failures, store, trail, runs, collections, collected,
                 failedSubjects>>

(* lines 91, 153-184: no queue, so collect, build, save and start at index 0 *)
HandlerFirstRun ==
  /\ pc = "idle"
  /\ isMarketDay
  /\ inv < MaxInvocations
  /\ ~store.present
  /\ \E failing \in SUBSET UserIds :
       LET tickerMap == collectStockRequests(users, failing)
           q == buildPriorityQueue(tickerMap)
           n == Min2(CHUNK_SIZE, Len(q))
       IN /\ Fail(Cardinality(failing))
          /\ store' = saveQueueToRedis(q, CHUNK_SIZE)
          /\ mode' = "first_run"
          /\ queue' = q
          /\ startIndex' = 0
          /\ itemsToProcess' = n
          /\ EnterProcessQueue(q, 0, n)
          /\ collected' = {users[u].id : u \in {v \in 1..Len(users) :
                              users[v].stockAnalysesDbId /\ users[v].id \notin failing}}
  /\ inv' = inv + 1
  /\ collections' = collections + 1
  /\ chunkNo' = 1
  /\ trail' = <<>>
  /\ item' = NoItem
  /\ response' = NoResponse
  /\ adminLog' = <<>>
  /\ UNCHANGED <<sideVars, envVars, notionVars, runs, failedSubjects>>

(* the ticker at 0-based index j of the running queue *)
ItemAt(j) == queue[j + 1]

CountRun(ticker) ==
  IF \E k \in 1..Len(runs) : runs[k].ticker = ticker
  THEN [k \in 1..Len(runs) |->
          IF runs[k].ticker = ticker THEN [runs[k] EXCEPT !.n = @ + 1] ELSE runs[k]]
  ELSE Append(runs, [ticker |-> ticker, n |-> 1])

(* bookkeeping of one iteration of the loop of processQueue *)
NoteAttempt(j) ==
  /\ trail' = Append(trail, [k |-> chunkNo, index |-> j])
  /\ runs' = CountRun(ItemAt(j).ticker)

(* orchestrator.ts:275-290: in dry-run mode an item is only counted *)
ProcessItemDryRun ==
  /\ pc = "process"
  /\ i < endIndex
  /\ DRY_RUN
  /\ metrics' = [metrics EXCEPT
                   !.analyzed = @ + 1,
                   !.apiCallsSaved = @ + (Len(ItemAt(i).subscribers) - 1) * API_CALLS_PER_ANALYSIS]
  /\ i' = i + 1
  /\ NoteAttempt(i)
  /\ UNCHANGED <<sideVars, envVars, notionVars, failures, store, pc, mode, queue, startIndex,
                 itemsToProcess, endIndex, item, response, inv, chunkNo, collections,
                 collected, failedSubjects, adminLog>>

(***************************************************************************)
(* processQueue outside dry-run mode (orchestrator.ts:292-403), one action *)
(* per step of the loop body.  The requests of one step to different       *)
(* subscribers touch different pages and are joined by Promise.allSettled, *)
(* so a step takes the outcome of every request at once.                   *)
(***************************************************************************)
PageStatus(subs, k) == status[subs[k].pageId]

(* notion.pages.update of the Status property of one page: it goes through
   (ok) or throws and leaves the page as it was *)
pagesUpdate(st, pageId, name, ok) == [st EXCEPT ![pageId] = IF ok THEN name ELSE @]

(* a variant that leaves the Status property alone *)
setAnalysisErrorNotesOnly(st, pageId, ok) == st

(* setAnalysisError, error-handler.ts:36-89: the page update, whose failure
   is caught *)
setAnalysisError(st, pageId, ok) == pagesUpdate(st, pageId, "Error", ok)

(* what notifyAdmin (error-handler.ts:99-182) can end in: the page of the
   System Errors database is created, pages.create throws (caught at lines
   178-181), or the database is not configured and nothing is sent (107-111) *)
NotifyOutcomes == {"sent", "failed", "skipped"}

Delivered == {"sent"}

(* a variant that rethrows the failure of the page update *)
setAnalysisErrorCallRethrows(ok, delivery) ==
  [pageUpdates |-> 1,
   updated |-> ok,
   notifyCalls |-> 1,
   notice |-> IF ok THEN "error" ELSE "meta",
   pagesCreates |-> IF delivery = "skipped" THEN 0 ELSE 1,
   delivery |-> delivery,
   threw |-> ~ok]

(* a variant that notifies the admin of the error and of its own failure *)
setAnalysisErrorCallNotifiesTwice(ok, delivery) ==
  [pageUpdates |-> 1,
   updated |-> ok,
   notifyCalls |-> IF ok THEN 1 ELSE 2,
   notice |-> IF ok THEN "error" ELSE "meta",
   pagesCreates |-> IF delivery = "skipped" THEN 0 ELSE IF ok THEN 1 ELSE 2,
   delivery |-> delivery,
   threw |-> FALSE]

(* one call of setAnalysisError, error-handler.ts:36-89: one pages.update in
   the try block (lines 47-68); when it goes through, notifyAdmin with the
   error (72-75); when it throws, the catch block (77-88) calls notifyAdmin
   with the meta-error and does not rethrow.  notifyAdmin is not awaited
   and swallows its own failure, so the call returns whatever the delivery *)
setAnalysisErrorCall(ok, delivery) ==
  [pageUpdates |-> 1,
   updated |-> ok,
   notifyCalls |-> 1,
   notice |-> IF ok THEN "error" ELSE "meta",
   pagesCreates |-> IF delivery = "skipped" THEN 0 ELSE 1,
   delivery |-> delivery,
   threw |-> FALSE]

(* no call of setAnalysisError for a subscriber *)
NoErrorCall ==
  [pageUpdates |-> 0, updated |-> FALSE, notifyCalls |-> 0, notice |-> "none",
   pagesCreates |-> 0, delivery |-> "none", threw |-> FALSE]

(* the calls of notifyAdmin made by the calls of setAnalysisError for the
   first k subscribers of a ticker *)
RECURSIVE NotifyAdminCalls(_, _, _, _)
NotifyAdminCalls(ticker, subs, calls, k) ==
  IF k = 0 THEN <<>>
  ELSE NotifyAdminCalls(ticker, subs, calls, k - 1) \o
       [n \in 1..calls[k].notifyCalls |->
          [fn |-> "notifyAdmin", ticker |-> ticker, pageId |-> subs[k].pageId,
           notice |-> calls[k].notice]]

(* setAnalyzingStatus, orchestrator.ts:687-709, for the first k subscribers *)
RECURSIVE setAnalyzingStatus(_, _, _, _)
setAnalyzingStatus(st, subs, ok, k) ==
  IF k = 0 THEN st
  ELSE pagesUpdate(setAnalyzingStatus(st, subs, ok, k - 1), subs[k].pageId, "Analyzing", ok[k])

(* a variant that reports the error to the first subscriber only *)
RECURSIVE broadcastErrorFirstOnly(_, _, _, _)
broadcastErrorFirstOnly(st, subs, ok, k) ==
  IF k = 0 THEN st ELSE setAnalysisError(st, subs[1].pageId, ok[1])

(* broadcastError, orchestrator.ts:711-744, for the first k subscribers *)
RECURSIVE broadcastError(_, _, _, _)
broadcastError(st, subs, ok, k) ==
  IF k = 0 THEN st
  ELSE setAnalysisError(broadcastError(st, subs, ok, k - 1), subs[k].pageId, ok[k])

(* orchestrator.ts:275-293 and setAnalyzingStatus, 687-709 *)
(* a variant that counts a failed "Analyzing" write as a failure of the
   subject in the chunk metrics *)
StartItemCountsFailures ==
  /\ pc = "process"
  /\ i < endIndex
  /\ ~DRY_RUN
  /\ LET subs == ItemAt(i).subscribers
     IN \E ok \in [1..Len(subs) -> BOOLEAN] :
          /\ Fail(FailedIn(ok))
          /\ status' = setAnalyzingStatus(status, subs, ok, Len(subs))
          /\ item' = [NoItem EXCEPT
                        !.index = i, !.subscribers = subs,
                        !.before = [k \in 1..Len(subs) |-> PageStatus(subs, k)],
                        !.analyzing = ok, !.analysis = "pending"]
          /\ metrics' = [metrics EXCEPT !.failed = @ + FailedIn(ok)]
  /\ NoteAttempt(i)
  /\ pc' = "analyze"
  /\ UNCHANGED <<sideVars, envVars, store, mode, queue, startIndex, itemsToProcess, i,
                 endIndex, response, inv, chunkNo, collections, collected,
                 failedSubjects, adminLog>>

StartItem ==
  /\ pc = "process"
  /\ i < endIndex
  /\ ~DRY_RUN
  /\ LET subs == ItemAt(i).subscribers
     IN \E ok \in [1..Len(subs) -> BOOLEAN] :
          /\ Fail(FailedIn(ok))
          /\ status' = setAnalyzingStatus(status, subs, ok, Len(subs))
          /\ item' = [NoItem EXCEPT
                        !.index = i, !.subscribers = subs,
                        !.before = [k \in 1..Len(subs) |-> PageStatus(subs, k)],
                        !.analyzing = ok, !.analysis = "pending"]
  /\ NoteAttempt(i)
  /\ pc' = "analyze"
  /\ UNCHANGED <<sideVars, envVars, store, localVars, response, inv, chunkNo, collections, collected,
                 failedSubjects, adminLog>>

(***************************************************************************)
(* analyzeWithRetry (orchestrator.ts:421-519), one action per call of      *)
(* analyzeStockCore.  The call ends in one of:                             *)
(*   complete    success, and validateAnalysisComplete accepts the result  *)
(*   incomplete  success, but the result misses required fields           *)
(*   overloaded  failure recognised by isGeminiRateLimitError (524-528)    *)
(*   error       any other failure result                                  *)
(*   exception   the call throws                                           *)
(***************************************************************************)
AnalysisResults == {"complete", "incomplete", "overloaded", "error", "exception"}

ResultSuccess(r) == r \in {"complete", "incomplete"}

isGeminiRateLimitError(r) == r = "overloaded"

(* a variant that accepts every result *)
validateAnalysisCompleteAlways(r) == TRUE

(* validateAnalysisComplete, called at orchestrator.ts:308 *)
validateAnalysisComplete(r) == r = "complete"

(* a variant that backs off and calls again after the last attempt too *)
RetryOnceMore(r, attempt) ==
  /\ r # "exception"
  /\ ~(ResultSuccess(r) \/ ~isGeminiRateLimitError(r))
  /\ attempt < ANALYSIS_MAX_RETRIES

(* a variant that calls again after any failure *)
RetryAnyFailure(r, attempt) ==
  /\ ~ResultSuccess(r)
  /\ attempt < ANALYSIS_MAX_RETRIES - 1

(* lines 428-515: what the loop does with the result of attempt number
   `attempt` (0-based): return it, or back off and call again *)
Retry(r, attempt) ==
  /\ r # "exception"
  /\ ~(ResultSuccess(r) \/ ~isGeminiRateLimitError(r))
  /\ attempt < ANALYSIS_MAX_RETRIES - 1

AnalyzeAttempt ==
  /\ pc = "analyze"
  /\ \E r \in AnalysisResults :
       /\ Fail(IF r = "complete" THEN 0 ELSE 1)
       /\ IF Retry(r, item.calls)
          THEN /\ item' = [item EXCEPT !.calls = @ + 1, !.backoffs = @ + 1,
                                        !.outcomes = Append(@, r)]
               /\ UNCHANGED <<metrics, pc, failedSubjects>>
          ELSE IF ResultSuccess(r) /\ validateAnalysisComplete(r)
               THEN (* orchestrator.ts:316-317 *)
                    /\ item' = [item EXCEPT !.calls = @ + 1, !.analysis = "ok",
                                             !.outcomes = Append(@, r)]
                    /\ metrics' = [metrics EXCEPT !.analyzed = @ + 1]
                    /\ pc' = "broadcast"
                    /\ UNCHANGED failedSubjects
               ELSE (* orchestrator.ts:298-300 and 308-310 *)
                    /\ item' = [item EXCEPT !.calls = @ + 1, !.analysis = "failed",
                                             !.outcomes = Append(@, r)]
                    /\ metrics' = [metrics EXCEPT !.failed = @ + 1]
                    /\ pc' = "broadcast_error"
                    /\ failedSubjects' = failedSubjects \cup {ItemAt(item.index).ticker}
  /\ UNCHANGED <<sideVars, envVars, notionVars, store, mode, queue, startIndex, itemsToProcess, i,
                 endIndex, response, inv, chunkNo, trail, runs, collections, collected,
                 adminLog>>

(* orchestrator.ts:298-314 and broadcastError 711-744, setAnalysisError
   error-handler.ts:36-89: the page update of each subscriber succeeds or
   fails on its own, and a failure is caught; then `continue` *)
BroadcastErrorStep(deliveries) ==
  /\ pc = "broadcast_error"
  /\ LET subs == item.subscribers
     IN \E ok \in [1..Len(subs) -> BOOLEAN], delivery \in [1..Len(subs) -> deliveries] :
          LET calls == [k \in 1..Len(subs) |-> setAnalysisErrorCall(ok[k], delivery[k])]
          IN /\ Fail(FailedIn(ok) + Undelivered(delivery))
             /\ status' = broadcastError(status, subs, ok, Len(subs))
             /\ item' = [item EXCEPT
                           !.errorWrites = [k \in 1..Len(subs) |->
                                              IF ok[k] THEN "ok" ELSE "failed"],
                           !.errorCalls = calls,
                           !.done = TRUE]
             /\ adminLog' = adminLog \o
                    NotifyAdminCalls(ItemAt(item.index).ticker, subs, calls, Len(subs))
  /\ i' = i + 1
  /\ pc' = "process"
  /\ UNCHANGED <<sideVars, envVars, store, mode, queue, startIndex, itemsToProcess, endIndex,
                 metrics, response, inv, chunkNo, trail, runs, collections, collected,
                 failedSubjects>>

BroadcastError == BroadcastErrorStep(Delivered)

(***************************************************************************)
(* broadcastToUser (orchestrator.ts:585-679).  script[a] is what           *)
(* syncToNotion does in attempt a:                                         *)
(*   page   it returns a non-empty analysesPageId (the record is written)  *)
(*   null   it returns without an analysesPageId (nothing was written)     *)
(*   throw  it throws                                                      *)
(* writeOk tells whether the status update that ends the call (Complete,   *)
(* lines 624-637, or Error through setAnalysisError, lines 658-670) goes   *)
(* through; both swallow a failure.                                        *)
(***************************************************************************)
SyncResults == {"page", "null", "throw"}

BroadcastScripts ==
  {s \in UNION {[1..n -> SyncResults] : n \in 1..BROADCAST_MAX_RETRIES} :
     /\ \A a \in 1..(Len(s) - 1) : s[a] # "page"
     /\ s[Len(s)] = "page" \/ Len(s) = BROADCAST_MAX_RETRIES}

(* a variant that goes on whenever syncToNotion returns *)
SyncAcceptedUnchecked(r) == r # "throw"

(* lines 616-621: the attempt goes on to "Complete" *)
SyncAccepted(r) == r = "page"

(* a variant of the attempt loop that gives up after the first failure *)
BroadcastAttemptNoRetry(script, writeOk, attempt) ==
  [outcome |-> IF SyncAccepted(script[attempt + 1]) THEN "fulfilled" ELSE "rejected",
   attempts |-> attempt + 1, written |-> writeOk]

RECURSIVE BroadcastAttempt(_, _, _)
BroadcastAttempt(script, writeOk, attempt) ==
  IF SyncAccepted(script[attempt + 1])
  THEN [outcome |-> "fulfilled", attempts |-> attempt + 1,
        written |-> writeOk]
  ELSE IF attempt < BROADCAST_MAX_RETRIES - 1
       THEN BroadcastAttempt(script, writeOk, attempt + 1)
       ELSE [outcome |-> "rejected", attempts |-> attempt + 1,
             written |-> writeOk]

broadcastToUser(script, writeOk) == BroadcastAttempt(script, writeOk, 0)

SyncFailures(script) ==
  LET RECURSIVE Sum(_)
      Sum(k) == IF k = 0 THEN 0
                ELSE Sum(k - 1) + Cardinality({a \in 1..Len(script[k]) : script[k][a] # "page"})
  IN Sum(Len(script))

(* a variant that writes the Error statuses and leaves out the Complete ones *)
RECURSIVE broadcastToSubscribersErrorsOnly(_, _, _, _)
broadcastToSubscribersErrorsOnly(st, subs, results, k) ==
  IF k = 0 THEN st
  ELSE LET before == broadcastToSubscribersErrorsOnly(st, subs, results, k - 1)
       IN IF results[k].outcome = "fulfilled"
          THEN before
          ELSE setAnalysisError(before, subs[k].pageId, results[k].written)

(* the status writes of the broadcasts of the first k subscribers: Complete
   at lines 624-637, Error through setAnalysisError at lines 658-670 *)
RECURSIVE broadcastToSubscribers(_, _, _, _)
broadcastToSubscribers(st, subs, results, k) ==
  IF k = 0 THEN st
  ELSE LET before == broadcastToSubscribers(st, subs, results, k - 1)
       IN IF results[k].outcome = "fulfilled"
          THEN pagesUpdate(before, subs[k].pageId, "Complete", results[k].written)
          ELSE setAnalysisError(before, subs[k].pageId, results[k].written)

CountOf(results, outcome) == Cardinality({k \in 1..Len(results) : results[k].outcome = outcome})

(* orchestrator.ts:319-330 and broadcastToSubscribers 551-580 *)
BroadcastStep(deliveries) ==
  /\ pc = "broadcast"
  /\ LET subs == item.subscribers
         n == Len(subs)
     IN \E script \in [1..n -> BroadcastScripts], writeOk \in [1..n -> BOOLEAN],
           delivery \in [1..n -> deliveries] :
          LET results == [k \in 1..n |-> broadcastToUser(script[k], writeOk[k])]
              calls == [k \in 1..n |->
                          IF results[k].outcome = "rejected"
                          THEN setAnalysisErrorCall(writeOk[k], delivery[k])
                          ELSE NoErrorCall]
          IN /\ \A k \in 1..n : results[k].outcome = "fulfilled" => delivery[k] = "sent"
             /\ Fail(FailedIn(writeOk) + SyncFailures(script) + Undelivered(delivery))
             /\ status' = broadcastToSubscribers(status, subs, results, n)
             /\ item' = [item EXCEPT
                           !.sync = [k \in 1..n |-> script[k][results[k].attempts]],
                           !.results = results,
                           !.errorCalls = calls]
             /\ adminLog' = adminLog \o
                    NotifyAdminCalls(ItemAt(item.index).ticker, subs, calls, n)
             /\ metrics' = [metrics EXCEPT
                              !.totalBroadcasts = @ + n,
                              !.successfulBroadcasts = @ + CountOf(results, "fulfilled"),
                              !.failedBroadcasts = @ + CountOf(results, "rejected"),
                              !.apiCallsSaved = @ + (n - 1) * API_CALLS_PER_ANALYSIS]
  /\ pc' = "history"
  /\ UNCHANGED <<sideVars, envVars, store, mode, queue, startIndex, itemsToProcess, i, endIndex,
                 response, inv, chunkNo, trail, runs, collections, collected,
                 failedSubjects>>

Broadcast == BroadcastStep(Delivered)

(* a variant that takes every fulfilled subscriber *)
UniqueSubscribersNoDedupe(subs, results) ==
  {k \in 1..Len(subs) : results[k].outcome = "fulfilled"}

(* a variant that takes the first subscriber of each user, fulfilled or not *)
UniqueSubscribersAll(subs, results) ==
  {k \in 1..Len(subs) : \A j \in 1..(k - 1) : subs[j].userId # subs[k].userId}

(* a variant that archives for the first fulfilled subscriber only, as if
   the archive writes of the other users were given up *)
UniqueSubscribersFirstOnly(subs, results) ==
  {k \in 1..Len(subs) :
     /\ results[k].outcome = "fulfilled"
     /\ \A j \in 1..(k - 1) : results[j].outcome # "fulfilled"}

(* a variant that takes the last fulfilled subscriber of each user *)
UniqueSubscribersLastWins(subs, results) ==
  {k \in 1..Len(subs) :
     /\ results[k].outcome = "fulfilled"
     /\ \A j \in (k + 1)..Len(subs) :
          ~(subs[j].userId = subs[k].userId /\ results[j].outcome = "fulfilled")}

(* orchestrator.ts:339-350: the first fulfilled subscriber of each user *)
UniqueSubscribers(subs, results) ==
  {k \in 1..Len(subs) :
     /\ results[k].outcome = "fulfilled"
     /\ \A j \in 1..(k - 1) :
          ~(subs[j].userId = subs[k].userId /\ results[j].outcome = "fulfilled")}

(* what archiveToHistory can do for a subscriber: create the entry, return
   null, or throw; without a Stock History database no entry is created *)
ArchiveResults(sub) ==
  IF sub.stockHistoryDbId THEN {"created", "null", "throw"} ELSE {"null", "throw"}

(* orchestrator.ts:277  isLastItem = i === endIndex - 1 *)
IsLastItem(j) == j = endIndex - 1

(* a variant that goes on to the next item without waiting for the Stock
   History writes (no await on Promise.allSettled at orchestrator.ts:392) *)
HistoryNotAwaited ==
  /\ pc = "history"
  /\ i' = i + 1
  /\ pc' = "process"
  /\ UNCHANGED <<sideVars, envVars, notionVars, failures, store, mode, queue, startIndex,
                 itemsToProcess, endIndex, metrics, item, response, ghostVars>>

(* orchestrator.ts:332-403: Stock History entries, the pause of lines
   398-402, then on to the next item *)
History ==
  /\ pc = "history"
  /\ LET subs == item.subscribers
         unique == IF CountOf(item.results, "fulfilled") > 0
                   THEN UniqueSubscribers(subs, item.results) ELSE {}
     IN \E arch \in [unique -> {"created", "null", "throw"}] :
          /\ \A k \in unique : arch[k] \in ArchiveResults(subs[k])
          /\ Fail(Cardinality({k \in unique :
                                 subs[k].stockHistoryDbId /\ arch[k] # "created"}))
          /\ item' = [item EXCEPT
                        !.archive = [k \in 1..Len(subs) |->
                                       IF k \in unique THEN arch[k] ELSE "none"],
                        !.delayed = ~IsLastItem(i) /\ ANALYSIS_DELAY_MS > 0,
                        !.done = TRUE]
  /\ i' = i + 1
  /\ pc' = "process"
  /\ UNCHANGED <<sideVars, envVars, status, store, mode, queue, startIndex, itemsToProcess,
                 endIndex, metrics, response, ghostVars>>

(* orchestrator.ts:275, 405-415: the loop is over, the metrics are returned *)
ProcessQueueReturn ==
  /\ pc = "process"
  /\ i >= endIndex
  /\ pc' = "update"
  /\ UNCHANGED <<sideVars, envVars, notionVars, failures, store, localVars, item, response, ghostVars>>

(* a variant that advances the cursor by the analyzed items only *)
NewProcessedCountAnalyzed ==
  IF mode = "resume" THEN startIndex + metrics.analyzed ELSE metrics.analyzed

(* a variant that stores the size of the chunk as the cursor *)
NewProcessedCountChunkOnly == itemsToProcess

(* scheduled-analyses.ts:112-114 and 186-187 *)
NewProcessedCount == IF mode = "resume" THEN startIndex + itemsToProcess ELSE itemsToProcess

UpdateCursor ==
  /\ pc = "update"
  /\ store.present
  /\ store' = updateProcessedCount(store, NewProcessedCount)
  /\ pc' = "check"
  /\ UNCHANGED <<sideVars, envVars, notionVars, failures, localVars, item, response, ghostVars>>

(* scheduled-analyses.ts:117 and 190 *)
IsComplete ==
  IF mode = "resume" THEN NewProcessedCount >= Len(queue) ELSE itemsToProcess >= Len(queue)

(* scheduled-analyses.ts:119-122 and 192-195, deleteQueue queue-storage.ts:259-280 *)
DeleteQueue ==
  /\ pc = "check"
  /\ IsComplete
  /\ store' = NoQueue
  /\ pc' = "respond"
  /\ UNCHANGED <<sideVars, envVars, notionVars, failures, localVars, item, response, ghostVars>>

CeilDiv(a, b) == (a + b - 1) \div b

(* the invocation is over and its locals are gone *)
EndInvocation ==
  /\ pc' = "idle"
  /\ mode' = "none"
  /\ queue' = <<>>
  /\ startIndex' = 0
  /\ itemsToProcess' = 0
  /\ i' = 0
  /\ endIndex' = 0
  /\ metrics' = NoMetrics
  /\ item' = NoItem

(* scheduled-analyses.ts:124-150 and 197-224 *)
Respond ==
  /\ \/ pc = "check" /\ ~IsComplete
     \/ pc = "respond"
  /\ response' =
       [code |-> 200, marketDay |-> TRUE, mode |-> mode,
        chunk |-> IF mode = "resume" THEN CeilDiv(NewProcessedCount, CHUNK_SIZE) ELSE 1,
        totalChunks |-> CeilDiv(Len(queue), CHUNK_SIZE),
        processedItems |-> NewProcessedCount,
        totalTickers |-> Len(queue),
        analyzed |-> metrics.analyzed, failed |-> metrics.failed,
        isComplete |-> IsComplete]
  /\ EndInvocation
  /\ UNCHANGED <<sideVars, envVars, notionVars, failures, store, ghostVars>>

Next ==
  \/ Unauthorized
  \/ MarketClosed
  \/ HandlerResume
  \/ HandlerFirstRun
  \/ ProcessItemDryRun
  \/ StartItem
  \/ AnalyzeAttempt
  \/ BroadcastError
  \/ Broadcast
  \/ History
  \/ ProcessQueueReturn
  \/ UpdateCursor
  \/ DeleteQueue
  \/ Respond

Spec == Init /\ [][Next]_vars

(***************************************************************************)
(* The queue store failing.  A request to Upstash ends in a network error  *)
(* (fetch rejects), in a response that is not OK, or in an OK response.    *)
(* Every operation of queue-storage.ts rethrows what its try block throws, *)
(* and the handler answers 500 (scheduled-analyses.ts:226-233); a response *)
(* is only looked at where the code tests response.ok.                     *)
(***************************************************************************)
InternalServerError == [code |-> 500]

(* loadQueueFromRedis, queue-storage.ts:149-181: the GET fails *)
LoadThrows ==
  /\ pc = "idle"
  /\ isMarketDay
  /\ inv < MaxInvocations
  /\ Fail(1)
  /\ inv' = inv + 1
  /\ response' = InternalServerError
  /\ UNCHANGED <<sideVars, envVars, notionVars, store, pc, localVars, item, chunkNo, trail, runs,
                 collections, collected, failedSubjects, adminLog>>

(* saveQueueToRedis, queue-storage.ts:87-100: the SET fails or is answered
   not OK, after the requests were collected *)
SaveThrows ==
  /\ pc = "idle"
  /\ isMarketDay
  /\ inv < MaxInvocations
  /\ ~store.present
  /\ Fail(1)
  /\ inv' = inv + 1
  /\ collections' = collections + 1
  /\ collected' = {users[u].id : u \in {v \in 1..Len(users) : users[v].stockAnalysesDbId}}
  /\ response' = InternalServerError
  /\ UNCHANGED <<sideVars, envVars, notionVars, store, pc, localVars, item, chunkNo, trail, runs,
                 failedSubjects, adminLog>>

(* updateProcessedCount, queue-storage.ts:201-215 and 225: the GET fails or
   is answered not OK, or the SET ends in a network error *)
UpdateThrows ==
  /\ pc = "update"
  /\ Fail(1)
  /\ response' = InternalServerError
  /\ EndInvocation
  /\ UNCHANGED <<sideVars, envVars, notionVars, store, ghostVars>>

(* updateProcessedCount, queue-storage.ts:225-241: the SET is answered not
   OK; the response is not looked at and the operation returns *)
UpdateNotOk ==
  /\ pc = "update"
  /\ store.present
  /\ Fail(1)
  /\ pc' = "check"
  /\ UNCHANGED <<sideVars, envVars, notionVars, store, localVars, item, response, ghostVars>>

(* deleteQueue, queue-storage.ts:264-279: the DEL ends in a network error *)
DeleteThrows ==
  /\ pc = "check"
  /\ IsComplete
  /\ Fail(1)
  /\ response' = InternalServerError
  /\ EndInvocation
  /\ UNCHANGED <<sideVars, envVars, notionVars, store, ghostVars>>

(* deleteQueue, queue-storage.ts:264-272: the DEL is answered not OK; the
   response is not looked at and the operation returns *)
DeleteNotOk ==
  /\ pc = "check"
  /\ IsComplete
  /\ Fail(1)
  /\ pc' = "respond"
  /\ UNCHANGED <<sideVars, envVars, notionVars, store, localVars, item, response, ghostVars>>

(* a day on which requests to the store can fail *)
FaultScenarios == {ScenShared} \cup {ScenMany(n) : n \in 0..(MaxChunkSize + 1)}

InitFaults ==
  /\ Init
  /\ users \in FaultScenarios
  /\ CHUNK_SIZE <= MaxChunkSize
  /\ status = [p \in AllPages |-> "Not started"]

NextFaults ==
  \/ Next
  \/ LoadThrows
  \/ SaveThrows
  \/ UpdateThrows
  \/ UpdateNotOk
  \/ DeleteThrows
  \/ DeleteNotOk

SpecFaults == InitFaults /\ [][NextFaults]_vars

(***************************************************************************)
(* The admin notification failing: the notifyAdmin calls of                *)
(* setAnalysisError can find the System Errors database unconfigured or    *)
(* have pages.create throw.                                                *)
(***************************************************************************)
BroadcastErrorUndelivered == BroadcastErrorStep(NotifyOutcomes)

BroadcastUndelivered == BroadcastStep(NotifyOutcomes)

InitNotify ==
  /\ Init
  /\ users = ScenShared
  /\ CHUNK_SIZE = 1
  /\ ~DRY_RUN
  /\ isMarketDay
  /\ status = [p \in AllPages |-> "Complete"]

NextNotify ==
  \/ HandlerResume
  \/ HandlerFirstRun
  \/ StartItem
  \/ AnalyzeAttempt
  \/ BroadcastErrorUndelivered
  \/ BroadcastUndelivered
  \/ History
  \/ ProcessQueueReturn
  \/ UpdateCursor
  \/ DeleteQueue
  \/ Respond

SpecNotify == InitNotify /\ [][NextNotify]_vars

(***************************************************************************)
(* The broadcast with every syncToNotion call of every subscriber on       *)
(* record.  broadcastToSubscribers (orchestrator.ts:551-580) starts one    *)
(* broadcastToUser per subscriber and waits for all of them with           *)
(* Promise.allSettled; each broadcastToUser makes its own attempts.        *)
(***************************************************************************)
(* the syncToNotion calls a broadcastToUser has made when it settles *)
AttemptsMade(script, result) == SubSeq(script, 1, result.attempts)

BroadcastLogged ==
  /\ pc = "broadcast"
  /\ LET subs == item.subscribers
         n == Len(subs)
     IN \E script \in [1..n -> BroadcastScripts], writeOk \in [1..n -> BOOLEAN] :
          LET results == [k \in 1..n |-> broadcastToUser(script[k], writeOk[k])]
              calls == [k \in 1..n |->
                          IF results[k].outcome = "rejected"
                          THEN setAnalysisErrorCall(writeOk[k], "sent")
                          ELSE NoErrorCall]
          IN /\ Fail(FailedIn(writeOk) + SyncFailures(script))
             /\ status' = broadcastToSubscribers(status, subs, results, n)
             /\ item' = [item EXCEPT
                           !.sync = [k \in 1..n |-> script[k][results[k].attempts]],
                           !.results = results,
                           !.errorCalls = calls]
             /\ syncLog' = [k \in 1..n |-> AttemptsMade(script[k], results[k])]
             /\ adminLog' = adminLog \o
                    NotifyAdminCalls(ItemAt(item.index).ticker, subs, calls, n)
             /\ metrics' = [metrics EXCEPT
                              !.totalBroadcasts = @ + n,
                              !.successfulBroadcasts = @ + CountOf(results, "fulfilled"),
                              !.failedBroadcasts = @ + CountOf(results, "rejected"),
                              !.apiCallsSaved = @ + (n - 1) * API_CALLS_PER_ANALYSIS]
  /\ pc' = "history"
  /\ UNCHANGED <<storeLog, handlers, backoff, envVars, store, mode, queue, startIndex,
                 itemsToProcess, i, endIndex, response, inv, chunkNo, trail, runs,
                 collections, collected, failedSubjects>>

InitBroadcast ==
  /\ Init
  /\ users = ScenShared
  /\ CHUNK_SIZE = 1
  /\ ~DRY_RUN
  /\ isMarketDay
  /\ status = [p \in AllPages |-> "Complete"]

NextBroadcast ==
  \/ HandlerResume
  \/ HandlerFirstRun
  \/ StartItem
  \/ AnalyzeAttempt
  \/ BroadcastError
  \/ BroadcastLogged
  \/ History
  \/ ProcessQueueReturn
  \/ UpdateCursor
  \/ DeleteQueue
  \/ Respond

SpecBroadcast == InitBroadcast /\ [][NextBroadcast]_vars

(***************************************************************************)
(* The invocation ending early.  Vercel stops a function that runs past    *)
(* its time limit, wherever it is; nothing of the handler runs after that, *)
(* not even the catch block of lines 226-233.                              *)
(***************************************************************************)
GatewayTimeout == [code |-> 504]

(* the invocation is stopped inside processQueue or before
   updateProcessedCount has sent its SET; a stop counts as a failure *)
Killed ==
  /\ pc \in {"process", "analyze", "broadcast", "broadcast_error", "history", "update"}
  /\ Fail(1)
  /\ response' = GatewayTimeout
  /\ EndInvocation
  /\ UNCHANGED <<sideVars, envVars, notionVars, store, ghostVars>>

InitKilled ==
  /\ Init
  /\ users = ScenShared
  /\ CHUNK_SIZE = MaxChunkSize
  /\ ~DRY_RUN
  /\ isMarketDay
  /\ status = [p \in AllPages |-> "Not started"]

NextKilled ==
  \/ HandlerResume
  \/ HandlerFirstRun
  \/ StartItem
  \/ AnalyzeAttempt
  \/ BroadcastError
  \/ Broadcast
  \/ History
  \/ ProcessQueueReturn
  \/ UpdateCursor
  \/ DeleteQueue
  \/ Respond
  \/ Killed
  \/ UpdateThrows

SpecKilled == InitKilled /\ [][NextKilled]_vars

(***************************************************************************)
(* Two invocations of the handler at the same time (the cron entries of    *)
(* one day, or a retry of the platform).  Each has its own locals in       *)
(* handlers[h]; the key in Redis is shared and nothing locks it.  A step   *)
(* is one request to the store or one call of processQueue, which in       *)
(* dry-run mode only walks the chunk.  updateProcessedCount is two         *)
(* requests: the GET of the value and the SET of the value it read with    *)
(* processedCount replaced (queue-storage.ts:201-232).                     *)
(***************************************************************************)
overlapFrame ==
  <<envVars, notionVars, failures, pc, localVars, item, response, chunkNo, runs,
    collections, collected, failedSubjects, adminLog, storeLog, syncLog, backoff>>

(* scheduled-analyses.ts:91-102: loadQueueFromRedis and the choice of the case *)
OverlapLoad(h) ==
  /\ handlers[h].pc = "idle"
  /\ isMarketDay
  /\ inv < MaxInvocations
  /\ LET existingQueue == loadQueueFromRedis(store)
         start == existingQueue.processedCount
     IN handlers' =
          [handlers EXCEPT ![h] =
             IF existingQueue.present
             THEN [NoHandler EXCEPT
                     !.pc = "process", !.mode = "resume",
                     !.queue = existingQueue.items, !.startIndex = start,
                     !.itemsToProcess = Min2(CHUNK_SIZE, existingQueue.totalCount - start)]
             ELSE [NoHandler EXCEPT !.pc = "save", !.mode = "first_run"]]
  /\ inv' = inv + 1
  /\ UNCHANGED <<overlapFrame, store, trail>>

(* scheduled-analyses.ts:167-181: collect, build, saveQueueToRedis, which
   overwrites whatever the key holds *)
OverlapSave(h) ==
  /\ handlers[h].pc = "save"
  /\ LET q == buildPriorityQueue(collectStockRequests(users, {}))
     IN /\ store' = saveQueueToRedis(q, CHUNK_SIZE)
        /\ handlers' = [handlers EXCEPT
                          ![h].pc = "process", ![h].queue = q, ![h].startIndex = 0,
                          ![h].itemsToProcess = Min2(CHUNK_SIZE, Len(q))]
  /\ UNCHANGED <<overlapFrame, inv, trail>>

(* scheduled-analyses.ts:105-110 and 184: processQueue walks the chunk *)
OverlapProcess(h) ==
  /\ handlers[h].pc = "process"
  /\ LET start == handlers[h].startIndex
         end == ChunkEnd(start, handlers[h].itemsToProcess, Len(handlers[h].queue))
     IN trail' = trail \o [k \in 1..(end - start) |-> [k |-> h, index |-> start + k - 1]]
  /\ handlers' = [handlers EXCEPT ![h].pc = "update_get"]
  /\ UNCHANGED <<overlapFrame, store, inv>>

(* the cursor the invocation h writes (scheduled-analyses.ts:113 and 187) *)
OverlapNewProcessedCount(h) ==
  IF handlers[h].mode = "resume"
  THEN handlers[h].startIndex + handlers[h].itemsToProcess
  ELSE handlers[h].itemsToProcess

(* scheduled-analyses.ts:117 and 190 *)
OverlapIsComplete(h) ==
  IF handlers[h].mode = "resume"
  THEN OverlapNewProcessedCount(h) >= Len(handlers[h].queue)
  ELSE handlers[h].itemsToProcess >= Len(handlers[h].queue)

(* updateProcessedCount, queue-storage.ts:201-219: the GET; without a value
   it throws 'Queue not found' and the handler answers 500 *)
OverlapUpdateGet(h) ==
  /\ handlers[h].pc = "update_get"
  /\ handlers' = [handlers EXCEPT
                    ![h] = IF store.present
                           THEN [@ EXCEPT !.pc = "update_set", !.got = store]
                           ELSE [NoHandler EXCEPT !.code = 500]]
  /\ UNCHANGED <<overlapFrame, store, inv, trail>>

(* updateProcessedCount, queue-storage.ts:221-232: the SET of the value that
   was read, with the new processedCount *)
OverlapUpdateSet(h) ==
  /\ handlers[h].pc = "update_set"
  /\ store' = updateProcessedCount(handlers[h].got, OverlapNewProcessedCount(h))
  /\ handlers' = [handlers EXCEPT ![h].pc = "check"]
  /\ UNCHANGED <<overlapFrame, inv, trail>>

(* scheduled-analyses.ts:119-122 and 192-195 *)
OverlapDelete(h) ==
  /\ handlers[h].pc = "check"
  /\ OverlapIsComplete(h)
  /\ store' = NoQueue
  /\ handlers' = [handlers EXCEPT ![h].pc = "respond"]
  /\ UNCHANGED <<overlapFrame, inv, trail>>

(* scheduled-analyses.ts:124-150 and 197-224 *)
OverlapRespond(h) ==
  /\ \/ handlers[h].pc = "check" /\ ~OverlapIsComplete(h)
     \/ handlers[h].pc = "respond"
  /\ handlers' = [handlers EXCEPT ![h] = [NoHandler EXCEPT !.code = 200]]
  /\ UNCHANGED <<overlapFrame, store, inv, trail>>

InitOverlap ==
  /\ Init
  /\ users \in {ScenMany(n) : n \in 1..(MaxChunkSize + 1)}
  /\ CHUNK_SIZE <= MaxChunkSize
  /\ isMarketDay
  /\ status = [p \in AllPages |-> "Not started"]

NextOverlap ==
  \E h \in HandlerIds :
    \/ OverlapLoad(h)
    \/ OverlapSave(h)
    \/ OverlapProcess(h)
    \/ OverlapUpdateGet(h)
    \/ OverlapUpdateSet(h)
    \/ OverlapDelete(h)
    \/ OverlapRespond(h)

SpecOverlap == InitOverlap /\ [][NextOverlap]_vars

(* collection and queue building alone, over BuildScenarios *)
NextBuild == HandlerFirstRun

SpecBuild == InitBuild /\ [][NextBuild]_vars

(***************************************************************************)
(* The first invocation of a day over users of every tier: the four tiers  *)
(* of TIER_PRIORITY, no tier at all (collectStockRequests makes it Free,   *)
(* orchestrator.ts:174) and a tier the table does not have.  The first     *)
(* user holds "A", the second "A", "B" or nothing, the third "A" or "B".   *)
(***************************************************************************)
TierNames == {"Pro", "Analyst", "Starter", "Free", "", "Enterprise"}

TierScenarios ==
  {<<User(1, t1, TRUE, TRUE, <<<<Upper(1)>>>>),
     User(2, t2, TRUE, TRUE, p2),
     User(3, t3, TRUE, TRUE, <<p3>>)>> :
     t1 \in TierNames, t2 \in TierNames, t3 \in TierNames,
     p2 \in {<<>>, <<<<Upper(1)>>>>, <<<<Upper(2)>>>>},
     p3 \in {<<Upper(1)>>, <<Upper(2)>>}}

InitPriority ==
  /\ users \in TierScenarios
  /\ DRY_RUN = TRUE
  /\ CHUNK_SIZE = DEFAULT_CHUNK_SIZE
  /\ ANALYSIS_DELAY_MS = DEFAULT_ANALYSIS_DELAY_MS
  /\ isMarketDay = TRUE
  /\ status = [p \in AllPages |-> "Not started"]
  /\ failures = 0
  /\ store = NoQueue
  /\ pc = "idle"
  /\ mode = "none"
  /\ queue = <<>>
  /\ startIndex = 0
  /\ itemsToProcess = 0
  /\ i = 0
  /\ endIndex = 0
  /\ metrics = NoMetrics
  /\ item = NoItem
  /\ response = NoResponse
  /\ inv = 0
  /\ chunkNo = 0
  /\ trail = <<>>
  /\ runs = <<>>
  /\ collections = 0
  /\ collected = {}
  /\ failedSubjects = {}
  /\ adminLog = <<>>
  /\ storeLog = <<>>
  /\ handlers = NoHandlers
  /\ syncLog = <<>>
  /\ backoff = NoBackoff

NextPriority == HandlerFirstRun

SpecPriority == InitPriority /\ [][NextPriority]_vars

(***************************************************************************)
(* The retry branch of analyzeWithRetry (orchestrator.ts:449-460) and      *)
(* extractRetryAfter (534-546).  The error text of a result either has no  *)
(* "Please retry in ...s" in it, or has one with a number of seconds,      *)
(* kept in tenths, or has one whose run of digits and dots parseFloat      *)
(* cannot read (for instance "."), which gives NaN.                        *)
(***************************************************************************)
ErrorTexts ==
  {[kind |-> "none"], [kind |-> "dots"]}
    \cup {[kind |-> "seconds", tenths |-> n] : n \in 0..MaxRetryTenths}

backoffDelays == <<2000, 4000, 8000>>

(* Math.ceil of a number of seconds given in tenths *)
MathCeil(tenths) == (tenths + 9) \div 10

(* a variant without the cap *)
extractRetryAfterNoCap(error) ==
  IF error.kind = "none" THEN [kind |-> "null"]
  ELSE IF error.kind = "dots" THEN [kind |-> "NaN"]
  ELSE [kind |-> "number", value |-> MathCeil(error.tenths)]

extractRetryAfter(error) ==
  IF error.kind = "none" THEN [kind |-> "null"]
  ELSE IF error.kind = "dots" THEN [kind |-> "NaN"]
  ELSE [kind |-> "number", value |-> Min2(MathCeil(error.tenths), RETRY_AFTER_CAP)]

(* the test of the conditional of lines 452-454: null, NaN and 0 are falsy *)
Truthy(r) == r.kind = "number" /\ r.value # 0

(* lines 451-454: delayMs *)
RetryDelayMs(error, attempt) ==
  LET retryAfterSeconds == extractRetryAfter(error)
  IN IF Truthy(retryAfterSeconds)
     THEN retryAfterSeconds.value * 1000
     ELSE backoffDelays[attempt + 1]

(* lines 449-460: a rate-limit error before the last attempt *)
AnalyzeBackoff ==
  /\ backoff.delayMs = -1
  /\ backoff.attempt < ANALYSIS_MAX_RETRIES - 1
  /\ backoff' = [backoff EXCEPT !.delayMs = RetryDelayMs(backoff.error, backoff.attempt)]
  /\ UNCHANGED <<envVars, notionVars, failures, store, pc, localVars, item, response,
                 ghostVars, storeLog, handlers, syncLog>>

InitBackoff ==
  /\ users = ScenShared
  /\ DRY_RUN = FALSE
  /\ CHUNK_SIZE = DEFAULT_CHUNK_SIZE
  /\ ANALYSIS_DELAY_MS = DEFAULT_ANALYSIS_DELAY_MS
  /\ isMarketDay = TRUE
  /\ status = [p \in AllPages |-> "Not started"]
  /\ failures = 0
  /\ store = NoQueue
  /\ pc = "idle"
  /\ mode = "none"
  /\ queue = <<>>
  /\ startIndex = 0
  /\ itemsToProcess = 0
  /\ i = 0
  /\ endIndex = 0
  /\ metrics = NoMetrics
  /\ item = NoItem
  /\ response = NoResponse
  /\ inv = 0
  /\ chunkNo = 0
  /\ trail = <<>>
  /\ runs = <<>>
  /\ collections = 0
  /\ collected = {}
  /\ failedSubjects = {}
  /\ adminLog = <<>>
  /\ storeLog = <<>>
  /\ handlers = NoHandlers
  /\ syncLog = <<>>
  /\ \E e \in ErrorTexts, attempt \in 0..(ANALYSIS_MAX_RETRIES - 2) :
       backoff = [error |-> e, attempt |-> attempt, delayMs |-> -1]

NextBackoff == AnalyzeBackoff

SpecBackoff == InitBackoff /\ [][NextBackoff]_vars

(***************************************************************************)
(* The invocations of a market day with every store request succeeding,    *)
(* every external call returning, and the cron entries going on firing:    *)
(* whenever a step of the handler or of processQueue can be taken, one is  *)
(* taken in the end.                                                       *)
(***************************************************************************)
InitLive ==
  /\ Init
  /\ isMarketDay
  /\ status = [p \in AllPages |-> "Complete"]
  /\ \/ users \in {ScenMany(n) : n \in 0..MaxLiveTickers}
     \/ users = ScenShared /\ ~DRY_RUN /\ CHUNK_SIZE = 1

(* the steps of an invocation that has a queue in hand, and the start of an
   invocation that finds one stored *)
WithQueue ==
  \/ HandlerResume
  \/ ProcessItemDryRun
  \/ StartItem
  \/ AnalyzeAttempt
  \/ BroadcastError
  \/ Broadcast
  \/ History
  \/ ProcessQueueReturn
  \/ UpdateCursor
  \/ DeleteQueue
  \/ Respond

NextLive ==
  \/ HandlerFirstRun
  \/ HandlerResume
  \/ ProcessItemDryRun
  \/ StartItem
  \/ AnalyzeAttempt
  \/ BroadcastError
  \/ Broadcast
  \/ History
  \/ ProcessQueueReturn
  \/ UpdateCursor
  \/ DeleteQueue
  \/ Respond

SpecLive == InitLive /\ [][NextLive]_vars /\ WF_vars(WithQueue)

(***************************************************************************)
(* The operations of queue-storage.ts called one after another on the key  *)
(* of the day, every request succeeding: any sequence of saveQueueToRedis, *)
(* updateProcessedCount, loadQueueFromRedis and deleteQueue, with any      *)
(* queue the collector can give and any processed count.                   *)
(***************************************************************************)
StoreOp(op, items, count, threw, result) ==
  [op |-> op, items |-> items, count |-> count, threw |-> threw, result |-> result]

StoreSave ==
  /\ Len(storeLog) < MaxStoreOps
  /\ \E failing \in SUBSET UserIds :
       LET q == buildPriorityQueue(collectStockRequests(users, failing))
       IN /\ store' = saveQueueToRedis(q, CHUNK_SIZE)
          /\ storeLog' = Append(storeLog, StoreOp("save", q, 0, FALSE, store'))
  /\ UNCHANGED <<envVars, notionVars, failures, pc, localVars, item, response, ghostVars,
                 handlers, syncLog, backoff>>

(* queue-storage.ts:201-232; lines 217-219: without a value under the key
   the operation throws 'Queue not found' and writes nothing *)
StoreUpdate ==
  /\ Len(storeLog) < MaxStoreOps
  /\ \E processedCount \in 0..(MaxChunkSize + 1) :
       /\ store' = IF store.present THEN updateProcessedCount(store, processedCount)
                   ELSE store
       /\ storeLog' = Append(storeLog, StoreOp("update", <<>>, processedCount,
                                               ~store.present, store'))
  /\ UNCHANGED <<envVars, notionVars, failures, pc, localVars, item, response, ghostVars,
                 handlers, syncLog, backoff>>

StoreLoad ==
  /\ Len(storeLog) < MaxStoreOps
  /\ storeLog' = Append(storeLog, StoreOp("load", <<>>, 0, FALSE, loadQueueFromRedis(store)))
  /\ UNCHANGED <<envVars, notionVars, failures, store, pc, localVars, item, response,
                 ghostVars, handlers, syncLog, backoff>>

(* deleteQueue, queue-storage.ts:259-280 *)
StoreDelete ==
  /\ Len(storeLog) < MaxStoreOps
  /\ store' = NoQueue
  /\ storeLog' = Append(storeLog, StoreOp("delete", <<>>, 0, FALSE, store'))
  /\ UNCHANGED <<envVars, notionVars, failures, pc, localVars, item, response, ghostVars,
                 handlers, syncLog, backoff>>

InitStore ==
  /\ Init
  /\ users \in SmallScenarios
  /\ ~DRY_RUN
  /\ CHUNK_SIZE = MaxChunkSize
  /\ isMarketDay
  /\ status = [p \in AllPages |-> "Complete"]

NextStore ==
  \/ StoreSave
  \/ StoreUpdate
  \/ StoreLoad
  \/ StoreDelete

SpecStore == InitStore /\ [][NextStore]_vars

(***************************************************************************)
(* Properties.                                                             *)
(***************************************************************************)
(* the iterations of processQueue on index j of the stored queue so far *)
Attempts(j) == {m \in 1..Len(trail) : trail[m].index = j}

AttemptedIndices == {trail[m].index : m \in 1..Len(trail)}

(* C1: over the invocations from the one that saves the queue to the one
   that exhausts it, every index 0..totalCount-1 is attempted by
   processQueue in exactly one invocation and once: no index is attempted
   twice, between invocations exactly the indices below the stored cursor
   have been attempted, and when the queue is deleted every index has been. *)
C1_EveryIndexOnce ==
  /\ \A j \in AttemptedIndices : Cardinality(Attempts(j)) = 1
  /\ (pc = "idle" /\ store.present) =>
        AttemptedIndices = 0..(store.processedCount - 1)
  /\ pc = "respond" => AttemptedIndices = 0..(Len(queue) - 1)

C1_Witness ==
  /\ pc = "respond"
  /\ ~DRY_RUN
  /\ chunkNo >= 2
  /\ Len(queue) >= 2
  /\ \A j \in 0..(Len(queue) - 1) : Cardinality(Attempts(j)) = 1
  /\ trail[1].k # trail[Len(trail)].k

(* C2: on one calendar day no subject is analyzed more than once and the
   requests are collected once, however many invocations run: an invocation
   that arrives after the queue was exhausted and deleted does nothing. *)
C2_AtMostOncePerCycle ==
  ~DRY_RUN =>
    /\ \A k \in 1..Len(runs) : runs[k].n <= 1
    /\ collections <= 1

(* the page of subscriber k of the item in hand *)
PageOf(k) == item.subscribers[k].pageId

(* C3: broadcastToUser writes "Complete" only after syncToNotion returned a
   non-empty analysesPageId in the same attempt: a delivery that went on to
   the Complete write ended on such a sync, and whenever a page turns
   Complete it is the page of such a delivery. *)
C3_CompleteOnlyAfterVerifiedSync ==
  /\ [](\A k \in 1..Len(item.results) :
          item.results[k].outcome = "fulfilled" => item.sync[k] = "page")
  /\ [][\A p \in DOMAIN status :
          (status'[p] = "Complete" /\ status[p] # "Complete") =>
            /\ pc = "broadcast"
            /\ \E k \in 1..Len(item'.results) :
                 /\ item'.subscribers[k].pageId = p
                 /\ item'.results[k].outcome = "fulfilled"
                 /\ item'.sync[k] = "page"]_vars

C3_Witness ==
  /\ pc = "history"
  /\ \E k \in 1..Len(item.results) :
       /\ item.results[k].outcome = "fulfilled"
       /\ item.results[k].attempts = BROADCAST_MAX_RETRIES
       /\ item.results[k].written
       /\ item.sync[k] = "page"
       /\ item.before[k] # "Complete"
       /\ status[PageOf(k)] = "Complete"

(* processQueue has moved past the item in hand *)
ItemDone == item.index >= 0 /\ item.done

ItemSubscribers == 1..Len(item.subscribers)

Rejected(k) == item.analysis = "ok" /\ item.results[k].outcome = "rejected"

Fulfilled(k) == item.analysis = "ok" /\ item.results[k].outcome = "fulfilled"

(* the subject failed for subscriber k: its analysis failed terminally or
   the delivery to k exhausted its retries *)
FailedFor(k) == item.analysis = "failed" \/ Rejected(k)

(* the error status write for subscriber k went through *)
ErrorWritten(k) ==
  IF item.analysis = "failed" THEN item.errorWrites[k] = "ok" ELSE item.results[k].written

(* C4 as stated: a record that was Complete from an earlier cycle is not
   Complete once processQueue has finished a subject that failed for it,
   whatever became of the Analyzing and Error writes. *)
C4_AsStated ==
  ItemDone =>
    \A k \in ItemSubscribers :
      (item.before[k] = "Complete" /\ FailedFor(k)) => status[PageOf(k)] # "Complete"

(* C4: a record that was Complete from an earlier cycle is not Complete once
   processQueue has finished a subject that failed for it, provided the
   Analyzing write or the Error write of that record went through. *)
C4_NoStaleComplete ==
  ItemDone =>
    \A k \in ItemSubscribers :
      (/\ item.before[k] = "Complete"
       /\ FailedFor(k)
       /\ item.analyzing[k] \/ ErrorWritten(k)) => status[PageOf(k)] # "Complete"

C4_Witness ==
  /\ ItemDone
  /\ \E k \in ItemSubscribers :
       /\ item.before[k] = "Complete"
       /\ Rejected(k)
       /\ ~item.analyzing[k]
       /\ ErrorWritten(k)
       /\ status[PageOf(k)] = "Error"

(* C5 as stated: after processQueue has moved past a subject whose analysis
   failed terminally, every subscriber of it has status Error. *)
C5_AsStated ==
  (ItemDone /\ item.analysis = "failed") =>
    \A k \in ItemSubscribers : status[PageOf(k)] = "Error"

(* C5: after processQueue has moved past a subject whose analysis failed
   terminally, the Error write was made for every subscriber of it, and
   every subscriber whose Error write went through has status Error. *)
C5_ErrorForEverySubscriber ==
  (ItemDone /\ item.analysis = "failed") =>
    /\ Len(item.errorWrites) = Len(item.subscribers)
    /\ \A k \in ItemSubscribers :
         /\ item.errorWrites[k] \in {"ok", "failed"}
         /\ item.errorWrites[k] = "ok" => status[PageOf(k)] = "Error"

C5_Witness ==
  /\ ItemDone
  /\ item.analysis = "failed"
  /\ item.calls = ANALYSIS_MAX_RETRIES
  /\ Len(item.subscribers) >= 2
  /\ \A k \in ItemSubscribers : item.errorWrites[k] = "ok" /\ status[PageOf(k)] = "Error"

(* the subscribers of the item in hand for which an archive write was made
   on behalf of the user of subscriber k *)
ArchivesFor(k) ==
  {m \in ItemSubscribers :
     item.subscribers[m].userId = item.subscribers[k].userId /\ item.archive[m] # "none"}

ExactlyOneRejected ==
  /\ ItemDone
  /\ item.analysis = "ok"
  /\ Cardinality({k \in ItemSubscribers : Rejected(k)}) = 1

(* C6 as stated: when the analysis succeeds and the delivery to exactly one
   subscriber fails after its retries, that subscriber ends Error, every
   other subscriber ends Complete and an archive record was created in the
   Stock History of its user. *)
C6_AsStated ==
  ExactlyOneRejected =>
    \A k \in ItemSubscribers :
      IF Rejected(k)
      THEN status[PageOf(k)] = "Error"
      ELSE /\ status[PageOf(k)] = "Complete"
           /\ \E m \in ArchivesFor(k) : item.archive[m] = "created"

(* C6: when the analysis succeeds and the delivery to exactly one subscriber
   fails after its retries, that subscriber ends Error if its Error write
   went through and no archive write is made for its user on its account;
   every other subscriber is not set to Error, ends Complete if its
   Complete write went through, and exactly one archive write was made for
   its user. *)
C6_FailureIsolated ==
  ExactlyOneRejected =>
    \A k \in ItemSubscribers :
      IF Rejected(k)
      THEN /\ ErrorWritten(k) => status[PageOf(k)] = "Error"
           /\ status[PageOf(k)] # "Complete" \/ item.before[k] = "Complete"
           /\ item.archive[k] = "none"
           /\ (\A j \in ItemSubscribers \ {k} :
                  item.subscribers[j].userId # item.subscribers[k].userId)
                => ArchivesFor(k) = {}
      ELSE /\ status[PageOf(k)] # "Error"
           /\ item.results[k].written => status[PageOf(k)] = "Complete"
           /\ Cardinality(ArchivesFor(k)) = 1
           /\ \A m \in ArchivesFor(k) : Fulfilled(m)

C6_Witness ==
  /\ ExactlyOneRejected
  /\ \E k \in ItemSubscribers, j \in ItemSubscribers :
       /\ Rejected(k)
       /\ status[PageOf(k)] = "Error"
       /\ Fulfilled(j)
       /\ item.subscribers[j].userId # item.subscribers[k].userId
       /\ status[PageOf(j)] = "Complete"
       /\ item.archive[j] = "created"

(* the subject a Ticker text names: its letters, whatever their case, from
   the first to the last character that is not a space *)
KeyOf(t) ==
  LET solid == {c \in 1..Len(t) : t[c].l # 0}
  IN IF solid = {} THEN <<>>
     ELSE [c \in 1..(SetMax(solid) - SetMin(solid) + 1) |-> t[SetMin(solid) + c - 1].l]

(* the records the collector read: <<u, k>> is the k-th record of the u-th
   user, of a user that was collected, with a Ticker that is not empty *)
Requests ==
  UNION {{<<u, k>> : k \in {j \in 1..Len(users[u].pages) : users[u].pages[j].ticker # <<>>}} :
           u \in {v \in 1..Len(users) : users[v].id \in collected}}

RequestTicker(r) == users[r[1]].pages[r[2]].ticker

RequestsFor(key) == {r \in Requests : KeyOf(RequestTicker(r)) = key}

(* C7: the queue built by collectStockRequests and buildPriorityQueue has
   exactly one item per distinct subject among the collected requests, its
   ticker in upper case without surrounding spaces, and the subscribers of
   an item are exactly the requests for its subject, each once. *)
C7_OneItemPerSubject ==
  (pc = "process" /\ mode = "first_run") =>
    /\ \A a, b \in 1..Len(queue) :
         KeyOf(queue[a].ticker) = KeyOf(queue[b].ticker) => a = b
    /\ {KeyOf(queue[a].ticker) : a \in 1..Len(queue)}
         = {KeyOf(RequestTicker(r)) : r \in Requests}
    /\ \A a \in 1..Len(queue) :
         LET t == queue[a].ticker
             subs == queue[a].subscribers
         IN /\ \A c \in 1..Len(t) : t[c].l = 0 \/ t[c].up
            /\ Len(t) = Len(KeyOf(t))
            /\ {<<subs[k].userId, subs[k].pageId>> : k \in 1..Len(subs)}
                 = {<<users[r[1]].id, users[r[1]].pages[r[2]].id>> : r \in RequestsFor(KeyOf(t))}
            /\ Len(subs) = Cardinality(RequestsFor(KeyOf(t)))

C7_Witness ==
  /\ pc = "process"
  /\ mode = "first_run"
  /\ Len(queue) = 2
  /\ Cardinality(Requests) = 2 * MaxBuildPages
  /\ \E a \in 1..Len(queue) :
       /\ Len(queue[a].subscribers) >= 3
       /\ \E j, k \in 1..Len(queue[a].subscribers) :
            /\ queue[a].subscribers[j].userId # queue[a].subscribers[k].userId
            /\ users[1].pages[1].ticker # users[2].pages[1].ticker

(* the last invocation returned a success summary *)
SuccessSummary == pc = "idle" /\ response.code = 200 /\ response.marketDay

(* C8: the stored queue always has 0 <= processedCount <= totalCount and
   totalCount = the length of items, and while it stays in the store its
   processedCount never decreases. *)
C8_CursorBoundedAndMonotone ==
  /\ [](store.present =>
          /\ 0 <= store.processedCount
          /\ store.processedCount <= store.totalCount
          /\ store.totalCount = Len(store.items))
  /\ [][(store.present /\ store'.present) =>
          store'.processedCount >= store.processedCount]_vars

C8_Witness ==
  /\ pc = "check"
  /\ mode = "resume"
  /\ store.present
  /\ startIndex > 0
  /\ store.processedCount > startIndex
  /\ store.processedCount < store.totalCount

(* C9: after an invocation that returned a success summary the queue is in
   the store if and only if processedCount < totalCount, and a running
   invocation finds the queue gone only after its own cursor reached
   totalCount. *)
C9_PresentIffUnfinished ==
  /\ SuccessSummary =>
       /\ store.present <=> response.processedItems < response.totalTickers
       /\ store.present =>
            /\ store.processedCount = response.processedItems
            /\ store.totalCount = response.totalTickers
  /\ (pc # "idle" /\ ~store.present) =>
       (pc = "respond" /\ NewProcessedCount >= Len(queue))

(* the cursor after the k-th chunk of size c of a queue of n items *)
CursorAfter(k, c, n) == Min2(k * c, n)

(* C10: the k-th invocation on a queue of N items with chunk size C
   processes exactly the indices (k-1)*C .. min(k*C, N)-1 in ascending
   order and then stores processedCount = min(k*C, N); with N = 15 and
   C = 8 the first invocation leaves 8 and keeps the queue, the second
   leaves 15 and deletes it. *)
C10_ChunkSchedule ==
  /\ \A m \in 1..Len(trail) :
       /\ trail[m].index = m - 1
       /\ trail[m].k = ((m - 1) \div CHUNK_SIZE) + 1
  /\ pc \in {"update", "check", "respond"} =>
       Len(trail) = CursorAfter(chunkNo, CHUNK_SIZE, Len(queue))
  /\ pc = "check" => store.processedCount = CursorAfter(chunkNo, CHUNK_SIZE, Len(queue))
  /\ (pc = "idle" /\ store.present) =>
       store.processedCount = CursorAfter(chunkNo, CHUNK_SIZE, store.totalCount)
  /\ (Len(queue) = 15 /\ CHUNK_SIZE = 8) =>
       /\ pc = "check" =>
            \/ chunkNo = 1 /\ store.processedCount = 8 /\ ~IsComplete
            \/ chunkNo = 2 /\ store.processedCount = 15 /\ IsComplete
       /\ pc = "respond" => chunkNo = 2 /\ ~store.present

C10_Witness ==
  /\ pc = "respond"
  /\ Len(queue) = 15
  /\ CHUNK_SIZE = 8
  /\ chunkNo = 2
  /\ ~store.present
  /\ Len(trail) = 15
  /\ trail[8] = [k |-> 1, index |-> 7]
  /\ trail[9] = [k |-> 2, index |-> 8]
  /\ trail[15] = [k |-> 2, index |-> 14]

(* the iterations of processQueue in the running invocation *)
AttemptsInChunk == {m \in 1..Len(trail) : trail[m].k = chunkNo}

(* C11 as stated: the cursor an invocation stores is its start plus the
   number of items processQueue attempted in the chunk, and a subject whose
   analysis failed terminally is not attempted again later in the cycle
   (the calendar day). *)
C11_AsStated ==
  /\ pc = "check" => store.processedCount = startIndex + Cardinality(AttemptsInChunk)
  /\ pc = "analyze" => ItemAt(item.index).ticker \notin failedSubjects

(* C11 within the life of one stored queue: the cursor an invocation stores is its start plus the number of
   items processQueue attempted in the chunk, analyzed or failed alike, and
   no index, failed or not, is attempted again later in the cycle: a failed
   item is passed over by the loop and lies below the stored cursor. *)
C11_CursorAdvancesByAttempted ==
  /\ pc = "check" =>
       /\ store.processedCount = startIndex + Cardinality(AttemptsInChunk)
       /\ Cardinality(AttemptsInChunk) = metrics.analyzed + metrics.failed
  /\ \A m1, m2 \in 1..Len(trail) : m1 < m2 => trail[m1].index < trail[m2].index
  /\ (ItemDone /\ item.analysis = "failed") =>
       /\ i = item.index + 1
       /\ Cardinality(Attempts(item.index)) = 1
  /\ (pc = "check" /\ item.index >= 0) => item.index < store.processedCount

C11_Witness ==
  /\ pc = "check"
  /\ mode = "resume"
  /\ startIndex > 0
  /\ metrics.failed >= 1
  /\ item.analysis = "failed"
  /\ store.processedCount = startIndex + itemsToProcess
  /\ store.processedCount = item.index + 1

(* the records of the item in hand that belong to the user of record k *)
RecordsOfSameUser(k) ==
  {m \in ItemSubscribers : item.subscribers[m].userId = item.subscribers[k].userId}

(* C12: when a user holds the subject under two or more records and the
   primary write of at least one of them was fulfilled, exactly one archive
   write is made for that user in that processing of the subject, on the
   first of its fulfilled records, whichever records those are. *)
C12_OneArchivePerTenant ==
  (ItemDone /\ item.analysis = "ok") =>
    \A k \in ItemSubscribers :
      (Cardinality(RecordsOfSameUser(k)) >= 2
       /\ \E m \in RecordsOfSameUser(k) : Fulfilled(m)) =>
        /\ Cardinality(ArchivesFor(k)) = 1
        /\ \A a \in ArchivesFor(k) :
             /\ Fulfilled(a)
             /\ \A m \in RecordsOfSameUser(k) : Fulfilled(m) => a <= m

C12_Witness ==
  /\ ItemDone
  /\ item.analysis = "ok"
  /\ \E k, m \in ItemSubscribers :
       /\ k < m
       /\ m \in RecordsOfSameUser(k)
       /\ Rejected(k)
       /\ Fulfilled(m)
       /\ item.archive[k] = "none"
       /\ item.archive[m] = "created"

(* the last call of analyzeStockCore for the item in hand *)
LastOutcome == item.outcomes[Len(item.outcomes)]

(* the analysis of the item in hand has failed terminally: analyzeWithRetry
   has returned and its result is a failure or is incomplete *)
TerminallyFailed ==
  /\ item.index >= 0
  /\ pc # "analyze"
  /\ item.outcomes # <<>>
  /\ LastOutcome # "complete"

(* C13: for a subject whose analysis failed terminally processQueue makes
   no syncToNotion call and no archive write for any subscriber, and the
   only writes it makes after the analysis are Error writes to the pages of
   the subscribers. *)
C13_NoResultWritesAfterFailure ==
  /\ [](TerminallyFailed =>
          /\ pc \notin {"broadcast", "history"}
          /\ item.sync = <<>>
          /\ item.results = <<>>
          /\ item.archive = <<>>)
  /\ [][pc = "broadcast_error" =>
          \A p \in DOMAIN status :
            status'[p] # status[p] =>
              /\ status'[p] = "Error"
              /\ \E k \in ItemSubscribers : PageOf(k) = p]_vars

C13_Witness ==
  /\ ItemDone
  /\ TerminallyFailed
  /\ LastOutcome = "incomplete"
  /\ Len(item.subscribers) >= 2
  /\ \A k \in ItemSubscribers : status[PageOf(k)] = "Error"
  /\ item.sync = <<>>
  /\ item.archive = <<>>

(* the first n calls of analyzeStockCore for the item in hand all ended in
   a transient-overload error *)
OverloadedTimes(n) ==
  /\ Len(item.outcomes) >= n
  /\ \A a \in 1..n : item.outcomes[a] = "overloaded"

(* analyzeWithRetry has returned for the item in hand *)
AnalysisReturned == item.index >= 0 /\ pc # "analyze"

(* C14: when the first k < 3 analysis calls end in a transient-overload
   error and call k+1 succeeds, the subject ends successful after exactly
   k+1 calls and k backoff delays; when all 3 calls end in a
   transient-overload error the subject has failed terminally after
   exactly 3 calls; there is never a 4th call for a subject. *)
C14_RetryOnOverload ==
  /\ item.calls = Len(item.outcomes)
  /\ item.calls <= ANALYSIS_MAX_RETRIES
  /\ \A k \in 0..(ANALYSIS_MAX_RETRIES - 1) :
       (OverloadedTimes(k) /\ Len(item.outcomes) > k /\ item.outcomes[k + 1] = "complete") =>
         /\ AnalysisReturned
         /\ item.analysis = "ok"
         /\ item.calls = k + 1
         /\ item.backoffs = k
  /\ OverloadedTimes(ANALYSIS_MAX_RETRIES) =>
       /\ AnalysisReturned
       /\ item.analysis = "failed"
       /\ item.calls = ANALYSIS_MAX_RETRIES
  /\ \A k \in 1..(ANALYSIS_MAX_RETRIES - 1) :
       (pc = "analyze" /\ Len(item.outcomes) = k) => OverloadedTimes(k) /\ item.backoffs = k

C14_Witness ==
  /\ AnalysisReturned
  /\ item.outcomes = <<"overloaded", "overloaded", "complete">>
  /\ item.analysis = "ok"
  /\ item.calls = 3
  /\ item.backoffs = 2

(* C15: a failure that is not a transient-overload error, returned or
   thrown, ends the analysis of the subject after the call it came from,
   and when it came from the first call the subject has failed after
   exactly one call; a successful but incomplete result fails the subject
   without another call. *)
C15_OtherFailuresAreTerminal ==
  \A a \in 1..Len(item.outcomes) :
    item.outcomes[a] \in {"error", "exception", "incomplete"} =>
      /\ a = Len(item.outcomes)
      /\ AnalysisReturned
      /\ item.analysis = "failed"
      /\ item.calls = a
      /\ item.backoffs = a - 1

C15_Witness ==
  /\ ItemDone
  /\ item.outcomes = <<"exception">>
  /\ item.calls = 1
  /\ item.backoffs = 0
  /\ item.analysis = "failed"

(* C16: within a chunk, after any subject that is not the chunk's last one,
   whether it succeeded or failed, processQueue pauses for the
   inter-subject delay when that delay is positive. *)
C16_DelayAfterEverySubject ==
  (ItemDone /\ ~DRY_RUN /\ ~IsLastItem(item.index) /\ ANALYSIS_DELAY_MS > 0) => item.delayed

(* the part of C16 the code keeps: the pause follows every subject that
   was analysed successfully and is not the chunk's last one *)
C16_DelayAfterSuccess ==
  (ItemDone /\ ~DRY_RUN /\ item.analysis = "ok") =>
    (item.delayed <=> (~IsLastItem(item.index) /\ ANALYSIS_DELAY_MS > 0))

C16_Witness ==
  /\ ItemDone
  /\ item.analysis = "ok"
  /\ ~IsLastItem(item.index)
  /\ ANALYSIS_DELAY_MS > 0
  /\ item.delayed

(* C17: from its creation to its deletion every queue in the store carries
   a finite expiry, after any sequence of saveQueueToRedis and
   updateProcessedCount. *)
C17_QueueAlwaysExpires == store.present => store.expires

(* the part of C17 the code keeps: a queue carries its expiry from
   saveQueueToRedis until the first updateProcessedCount on it *)
C17_ExpiresUntilFirstUpdate ==
  (store.present /\ chunkNo = 1 /\ pc \in {"process", "analyze", "broadcast",
                                           "broadcast_error", "history", "update"}) =>
    store.expires

(* the handler answers success for a market day *)
AnswersSuccess == pc # "idle" /\ pc' = "idle" /\ response'.code = 200

(* C18: the handler never answers success while the queue in the store
   differs from what the invocation meant to write: the cursor it computed
   when chunks remain, no queue when the run is complete; a store request
   that fails makes the operation throw and the handler answer 500. *)
C18_SuccessMeansStored ==
  [][AnswersSuccess =>
       IF IsComplete
       THEN ~store.present
       ELSE store.present /\ store.processedCount = NewProcessedCount]_vars

(* C19: when no queue exists and the collector returns no subject the run
   reports analyzed = 0, failed = 0 and totalTickers = 0 *)
C19_EmptyRunReport ==
  [][(AnswersSuccess /\ mode = "first_run" /\ Len(queue) = 0) =>
       /\ response'.analyzed = 0
       /\ response'.failed = 0
       /\ response'.totalTickers = 0]_vars

(* C19, the write: such a run performs no queue-creating write *)
C19_EmptyRunCreatesNoQueue ==
  [][(~store.present /\ store'.present) => Len(store'.items) > 0]_vars

(* C19: both parts *)
C19_EmptyRun == C19_EmptyRunReport /\ C19_EmptyRunCreatesNoQueue

(* the ticker map the running queue was built from *)
BuiltFrom == collectStockRequests(users, UserIds \ collected)

(* the place of a ticker in the iteration order of the map *)
MapIndex(ticker) == CHOOSE j \in 1..Len(BuiltFrom) : BuiltFrom[j].ticker = ticker

(* C20: the queue returned by buildPriorityQueue is in non-decreasing
   priority order, items of equal priority keep the order of the map, and
   building again from the same map gives the same order. *)
C20_SortedAndRepeatable ==
  pc = "process" =>
    /\ Len(queue) = Len(BuiltFrom)
    /\ \A a, b \in 1..Len(queue) :
         a < b =>
           /\ queue[a].priority <= queue[b].priority
           /\ queue[a].priority = queue[b].priority =>
                MapIndex(queue[a].ticker) < MapIndex(queue[b].ticker)
    /\ [k \in 1..Len(queue) |-> buildPriorityQueue(BuiltFrom)[k].ticker]
         = [k \in 1..Len(queue) |-> queue[k].ticker]

C20_Witness ==
  /\ pc = "process"
  /\ Len(queue) = 2
  /\ queue[1].priority < queue[2].priority
  /\ MapIndex(queue[1].ticker) > MapIndex(queue[2].ticker)

(* the order of subject keys: the order of strings, character by character *)
RECURSIVE KeyLess(_, _)
KeyLess(s, t) ==
  IF t = <<>> THEN FALSE
  ELSE IF s = <<>> THEN TRUE
  ELSE IF s[1].l # t[1].l THEN s[1].l < t[1].l
  ELSE KeyLess(Tail(s), Tail(t))

(* C21: in the queue returned by buildPriorityQueue any two items of equal
   priority appear in ascending order of their subject keys, whatever the
   order in which users and records were collected. *)
C21_TiesInKeyOrder ==
  pc = "process" =>
    \A a, b \in 1..Len(queue) :
      (a < b /\ queue[a].priority = queue[b].priority) =>
        KeyLess(queue[a].ticker, queue[b].ticker)

(* the operations of the log that changed or returned the key without
   throwing *)
UpdatedAt(m) == storeLog[m].op = "update" /\ ~storeLog[m].threw

(* C22: updateProcessedCount is idempotent: after two calls in a row with
   the same processed count the stored processedCount, items and totalCount
   are what they were after the first call. *)
C22_UpdateIdempotent ==
  \A m \in 2..Len(storeLog) :
    (UpdatedAt(m - 1) /\ UpdatedAt(m) /\ storeLog[m].count = storeLog[m - 1].count) =>
      /\ storeLog[m].result.processedCount = storeLog[m - 1].result.processedCount
      /\ storeLog[m].result.processedCount = storeLog[m].count
      /\ storeLog[m].result.items = storeLog[m - 1].result.items
      /\ storeLog[m].result.totalCount = storeLog[m - 1].result.totalCount

C22_Witness ==
  /\ Len(storeLog) = 3
  /\ storeLog[1].op = "save"
  /\ Len(storeLog[1].items) = 3
  /\ UpdatedAt(2)
  /\ UpdatedAt(3)
  /\ storeLog[2].count = 2
  /\ storeLog[3].count = 2
  /\ store.processedCount = 2

(* the last save before operation m of the log, 0 when a delete came after
   it or there was none *)
SavedBefore(m) ==
  LET ends == {a \in 1..(m - 1) : storeLog[a].op \in {"save", "delete"}}
  IN IF ends = {} THEN 0
     ELSE IF storeLog[SetMax(ends)].op = "save" THEN SetMax(ends) ELSE 0

(* the processed count last written before operation m, after save s *)
LastWritten(s, m) ==
  LET ups == {a \in (s + 1)..(m - 1) : UpdatedAt(a)}
  IN IF ups = {} THEN 0 ELSE storeLog[SetMax(ups)].count

(* C23: a queue written by saveQueueToRedis, with or without calls of
   updateProcessedCount after it, and read by loadQueueFromRedis comes back
   with the items that were saved, in the same order (the subject key, the
   priority and the subscribers of each as they were, the timestamp as the
   ISO string of the Date), with totalCount as saved and processedCount as
   last written. *)
C23_RoundTrip ==
  \A m \in 1..Len(storeLog) :
    (storeLog[m].op = "load" /\ SavedBefore(m) > 0) =>
      LET saved == storeLog[SavedBefore(m)].items
          loaded == storeLog[m].result
      IN /\ loaded.present
         /\ Len(loaded.items) = Len(saved)
         /\ \A k \in 1..Len(saved) :
              /\ loaded.items[k].ticker = saved[k].ticker
              /\ loaded.items[k].priority = saved[k].priority
              /\ loaded.items[k].subscribers = saved[k].subscribers
              /\ saved[k].requestedAt = "Date"
              /\ loaded.items[k].requestedAt = "ISO string"
         /\ loaded.totalCount = Len(saved)
         /\ loaded.processedCount = LastWritten(SavedBefore(m), m)

C23_Witness ==
  /\ Len(storeLog) = 3
  /\ storeLog[1].op = "save"
  /\ Len(storeLog[1].items) = 3
  /\ UpdatedAt(2)
  /\ storeLog[2].count = 2
  /\ storeLog[3].op = "load"
  /\ storeLog[3].result.processedCount = 2
  /\ Len(storeLog[3].result.items) = 3

(* the subscribers of the item in hand for whom setAnalysisError was called *)
ErrorCalled == {k \in 1..Len(item.errorCalls) : item.errorCalls[k].pageUpdates > 0}

(* C24: setAnalysisError never throws to its caller: whether the page
   update goes through or not and whether the admin notification is
   delivered or not, the call returns after one page update attempt at most
   and one notification attempt at most, and processQueue goes on. *)
C24_SetAnalysisErrorReturns ==
  /\ \A k \in ErrorCalled :
       /\ ~item.errorCalls[k].threw
       /\ item.errorCalls[k].pageUpdates = 1
       /\ item.errorCalls[k].notifyCalls <= 1
       /\ item.errorCalls[k].pagesCreates <= 1
  /\ (item.analysis = "failed" /\ ErrorCalled # {}) =>
       /\ ErrorCalled = 1..Len(item.subscribers)
       /\ item.done
       /\ pc # "broadcast_error"
       /\ i = item.index + 1

C24_Witness ==
  /\ item.analysis = "failed"
  /\ Len(item.errorCalls) = 2
  /\ ~item.errorCalls[1].updated
  /\ item.errorCalls[1].notice = "meta"
  /\ item.errorCalls[1].delivery = "failed"
  /\ item.errorCalls[2].updated
  /\ item.errorCalls[2].delivery = "sent"
  /\ pc = "process"

(* the entries of the admin log made by function fn *)
AdminCalls(fn) == {m \in 1..Len(adminLog) : adminLog[m].fn = fn}

(* C25: when several subjects fail in one chunk the failures are reported
   to the admin as one batch summary for the chunk, not as one notification
   per failure. *)
C25_OneBatchNotification ==
  (pc = "update" /\ ~DRY_RUN /\ metrics.failed >= 2) =>
    /\ Cardinality(AdminCalls("notifyAdminBatch")) = 1
    /\ AdminCalls("notifyAdmin") = {}

(* what the code does: one notifyAdmin call for every subscriber of every
   failed subject, and no batch *)
C25_OneNotificationPerErrorWrite ==
  (pc = "update" /\ ~DRY_RUN) =>
    /\ AdminCalls("notifyAdminBatch") = {}
    /\ Cardinality(AdminCalls("notifyAdmin")) >= metrics.failed

(* the calls saved by deduplication over the items of the running queue at
   the 0-based indices in S *)
RECURSIVE SavedOver(_)
SavedOver(S) ==
  IF S = {} THEN 0
  ELSE LET j == CHOOSE x \in S : TRUE
       IN (Len(ItemAt(j).subscribers) - 1) * API_CALLS_PER_ANALYSIS + SavedOver(S \ {j})

IndicesInChunk == {trail[m].index : m \in AttemptsInChunk}

(* C26: the apiCallsSaved metric returned by processQueue is the sum, over
   every subject attempted in the chunk, successful or failed, of
   (subscribers - 1) times 17. *)
C26_SavedCallsOverAttempted ==
  pc = "update" => metrics.apiCallsSaved = SavedOver(IndicesInChunk)

(* what the code computes: the sum over the subjects of the chunk that were
   analysed (every subject in dry-run mode) *)
C26_SavedCallsOverAnalyzed ==
  pc = "update" =>
    \E S \in SUBSET IndicesInChunk :
      /\ Cardinality(S) = metrics.analyzed
      /\ metrics.apiCallsSaved = SavedOver(S)

(* the invocation in progress ends without having written the cursor *)
EndsBeforeUpdate ==
  /\ pc \in {"process", "analyze", "broadcast", "broadcast_error", "history", "update"}
  /\ pc' = "idle"

(* C27: the stored cursor is written only after processQueue has returned
   for the whole chunk, never between two subjects: an invocation that is
   killed or throws before updateProcessedCount leaves the stored
   processedCount as it was, and the next invocation starts from that
   index. *)
C27_CursorOnlyAfterChunk ==
  /\ [][(store.present /\ store'.present /\ store'.processedCount # store.processedCount) =>
          /\ pc = "update"
          /\ i = endIndex
          /\ i = startIndex + itemsToProcess
          /\ Cardinality(AttemptsInChunk) = itemsToProcess
          /\ store'.processedCount = startIndex + Cardinality(AttemptsInChunk)]_vars
  /\ [][EndsBeforeUpdate => store' = store]_vars
  /\ [][(pc = "idle" /\ pc' = "process" /\ store.present) =>
          /\ startIndex' = store.processedCount
          /\ i' = store.processedCount]_vars

(* an invocation was stopped after it had attempted an item, and the next
   one has started from the cursor that was stored before it *)
C27_Witness ==
  /\ pc = "process"
  /\ mode = "resume"
  /\ i = startIndex
  /\ store.processedCount = startIndex
  /\ \E m \in 1..Len(trail) : trail[m].k < chunkNo /\ trail[m].index >= startIndex

(* the indices of the day's queue that some invocation has attempted *)
OverlapAttempted == {trail[m].index : m \in 1..Len(trail)}

(* C28: when two invocations of the handler overlap, in every interleaving
   the stored processedCount never decreases, and a stored value v means
   that every item of the stored queue with index below v has been
   attempted at least once. *)
C28_CursorUnderOverlap ==
  /\ [][(store.present /\ store'.present) =>
          store'.processedCount >= store.processedCount]_vars
  /\ [](store.present =>
          \A j \in 0..(store.processedCount - 1) : j \in OverlapAttempted)

(* the second half of C28 alone *)
C28_StoredCursorWasAttempted ==
  store.present => \A j \in 0..(store.processedCount - 1) : j \in OverlapAttempted

(* every call made for the item in hand has settled: the "Analyzing" status
   writes, analyzeWithRetry, and then either the broadcasts and the Stock
   History writes or the error writes *)
ItemSettled ==
  /\ item.index >= 0
  /\ item.done
  /\ Len(item.analyzing) = Len(item.subscribers)
  /\ item.outcomes # <<>>
  /\ item.calls = Len(item.outcomes)
  /\ item.analysis \in {"ok", "failed"}
  /\ item.analysis = "ok" =>
       /\ Len(item.results) = Len(item.subscribers)
       /\ Len(item.archive) = Len(item.subscribers)
  /\ item.analysis = "failed" => Len(item.errorWrites) = Len(item.subscribers)

(* C29: within one processQueue call the subjects are handled one after the
   other in ascending index order: the analysis of the subject at index
   i + 1 starts only when the status writes, analysis, broadcasts, error
   writes and archive writes of the subject at index i have all settled, so
   at most one analysis call is in flight at any time. *)
C29_StrictlySequential ==
  /\ [][(pc' = "analyze" /\ pc # "analyze") =>
          /\ item'.index = i
          /\ item'.calls = 0
          /\ i = startIndex => item = NoItem
          /\ i > startIndex => (ItemSettled /\ item.index = i - 1)]_vars
  /\ [](pc = "analyze" => (item.index = i /\ ~item.done /\ item.calls < ANALYSIS_MAX_RETRIES))
  /\ [][(Len(trail') > Len(trail) /\ trail # <<>>
          /\ trail'[Len(trail')].k = trail[Len(trail)].k) =>
            trail'[Len(trail')].index = trail[Len(trail)].index + 1]_vars

(* the second subject of a chunk is being analysed after the first one,
   whose analysis succeeded, has had its broadcasts and archive writes *)
C29_Witness ==
  /\ pc = "analyze"
  /\ ~DRY_RUN
  /\ item.index = startIndex + 1
  /\ \E a \in 1..Len(trail) : trail[a].k = chunkNo /\ trail[a].index = startIndex
  /\ metrics.analyzed >= 1
  /\ metrics.totalBroadcasts >= 1

(* the archive writes of the item in hand have been started *)
ArchiveStarted == \E k \in DOMAIN item.archive : item.archive[k] # "none"

(* every subscriber's broadcast of the item in hand has settled *)
BroadcastsSettled ==
  /\ Len(item.results) = Len(item.subscribers)
  /\ \A k \in ItemSubscribers : item.results[k].outcome \in {"fulfilled", "rejected"}

(* C30: for a successfully analysed subject no archive write starts before
   every subscriber's broadcast has settled, and an archive write is
   attempted for a user only if at least one of that user's primary writes
   was fulfilled, on the record of the user's first fulfilled subscriber
   entry. *)
C30_ArchiveAfterBroadcasts ==
  /\ [][(item.index >= 0 /\ ~ArchiveStarted /\ ArchiveStarted') =>
          /\ item.analysis = "ok"
          /\ BroadcastsSettled
          /\ item'.results = item.results
          /\ item'.index = item.index]_vars
  /\ [](ArchiveStarted =>
          /\ item.analysis = "ok"
          /\ \A k \in ItemSubscribers :
               item.archive[k] # "none" =>
                 /\ item.results[k].outcome = "fulfilled"
                 /\ \A m \in 1..(k - 1) :
                      item.subscribers[m].userId = item.subscribers[k].userId
                        => item.results[m].outcome = "rejected")

(* one user's only primary write was rejected and no archive write was made
   for that user, while another user's archive write was attempted on its
   first fulfilled record *)
C30_Witness ==
  /\ ItemDone
  /\ item.analysis = "ok"
  /\ \E k, m \in ItemSubscribers :
       /\ item.subscribers[k].userId # item.subscribers[m].userId
       /\ \A n \in RecordsOfSameUser(k) : Rejected(n)
       /\ item.archive[k] = "none"
       /\ Fulfilled(m)
       /\ \A n \in RecordsOfSameUser(m) : Fulfilled(n) => m <= n
       /\ item.archive[m] # "none"

(* the broadcasts of the item in hand have just settled *)
BroadcastJustSettled == pc = "history" /\ Len(syncLog) = Len(item.subscribers)

(* C31: broadcastToUser makes at most 2 primary-write attempts per subscriber
   per subject, the second only after the first failed; when both fail it
   calls setAnalysisError for that subscriber exactly once and the
   subscriber's outcome is rejected; the attempts and the outcome of a
   subscriber follow from what its own primary writes returned, whatever
   happened to the other subscribers of the subject. *)
C31_BroadcastRetryIsolated ==
  BroadcastJustSettled =>
    \A k \in ItemSubscribers :
      LET log == syncLog[k]
          r == item.results[k]
      IN /\ Len(log) \in 1..2
         /\ r.attempts = Len(log)
         /\ Len(log) = 2 => log[1] # "page"
         /\ log[1] = "page" => (Len(log) = 1 /\ r.outcome = "fulfilled")
         /\ r.outcome = "fulfilled" <=> log[Len(log)] = "page"
         /\ r.outcome = "rejected" <=> (Len(log) = 2 /\ \A a \in 1..2 : log[a] # "page")
         /\ r.outcome = "rejected" =>
              /\ item.errorCalls[k] # NoErrorCall
              /\ item.errorCalls[k].pageUpdates = 1
         /\ r.outcome = "fulfilled" => item.errorCalls[k] = NoErrorCall

(* one subscriber of the subject was rejected after two failed attempts
   while another one was fulfilled at its first attempt *)
C31_Witness ==
  /\ BroadcastJustSettled
  /\ \E k, m \in ItemSubscribers :
       /\ k # m
       /\ Len(syncLog[k]) = 2
       /\ item.results[k].outcome = "rejected"
       /\ item.errorCalls[k].pageUpdates = 1
       /\ syncLog[m] = <<"page">>
       /\ item.results[m].outcome = "fulfilled"

(* the subject in hand was analysed and all its broadcasts have settled *)
BroadcastsDone ==
  /\ item.index >= 0
  /\ item.analysis = "ok"
  /\ pc = "history" \/ item.done

(* C32 as stated: every subscriber whose broadcast was fulfilled has status
   Complete on its primary record once the subject has been processed,
   whatever became of the status-update request. *)
C32_AsStated ==
  BroadcastsDone =>
    \A k \in ItemSubscribers : Fulfilled(k) => status[PageOf(k)] = "Complete"

(* C32: every subscriber whose broadcast is counted in successfulBroadcasts
   has status Complete on its primary record once the subject has been
   processed if its status-update request went through; if that request
   failed, the failure is swallowed, the broadcast is still counted as
   successful and the record keeps the status it had: Analyzing, or the
   status of before the subject when the in-progress write failed too. *)
C32_FulfilledCompleteIfWritten ==
  BroadcastsDone =>
    /\ metrics.successfulBroadcasts >= Cardinality({k \in ItemSubscribers : Fulfilled(k)})
    /\ \A k \in ItemSubscribers :
         Fulfilled(k) =>
           status[PageOf(k)] =
             IF item.results[k].written THEN "Complete"
             ELSE IF item.analyzing[k] THEN "Analyzing"
             ELSE item.before[k]

(* a fulfilled broadcast whose Complete write failed: the record still says
   Analyzing and the broadcast is counted as successful *)
C32_Witness ==
  /\ ItemDone
  /\ item.analysis = "ok"
  /\ \E k \in ItemSubscribers :
       /\ Fulfilled(k)
       /\ ~item.results[k].written
       /\ status[PageOf(k)] = "Analyzing"
       /\ metrics.successfulBroadcasts >= 1
       /\ metrics.failedBroadcasts = 0

(* the first fulfilled record of its user among the subscribers in hand *)
FirstFulfilledOfUser(k) ==
  /\ item.results[k].outcome = "fulfilled"
  /\ \A j \in 1..(k - 1) :
       item.subscribers[j].userId = item.subscribers[k].userId
         => item.results[j].outcome # "fulfilled"

(* C33: the archive step is isolated per user: whatever the archive writes
   of the subject return (created, null or a throw), an archive write is
   made for every user with a fulfilled broadcast, no subscriber's broadcast
   outcome or status changes, the chunk metrics do not change, and
   processQueue goes on to the next index. *)
C33_ArchiveIsolated ==
  [][(pc = "history" /\ pc' # "history") =>
       /\ \A k \in ItemSubscribers :
            FirstFulfilledOfUser(k) => item'.archive[k] \in {"created", "null", "throw"}
       /\ item'.results = item.results
       /\ status' = status
       /\ metrics' = metrics
       /\ pc' = "process"
       /\ i' = i + 1
       /\ endIndex' = endIndex]_vars

(* one user's archive write threw, another user's archive entry of the same
   subject was created, and processQueue is about to take the next subject
   of the chunk *)
C33_Witness ==
  /\ ItemDone
  /\ item.analysis = "ok"
  /\ pc = "process"
  /\ i = item.index + 1
  /\ i < endIndex
  /\ \E k, m \in ItemSubscribers :
       /\ item.subscribers[k].userId # item.subscribers[m].userId
       /\ item.archive[k] = "throw"
       /\ item.archive[m] = "created"
       /\ Fulfilled(k)
       /\ status[PageOf(k)] = "Complete"

(* C34: outside dry-run mode the analysis call of a subject starts only
   after the "Analyzing" status write of every subscriber has settled, and
   a failure of any of those writes neither prevents the analysis call nor
   changes the chunk metrics. *)
C34_AnalyzingBeforeAnalysis ==
  /\ [][(pc' = "analyze" /\ pc # "analyze") =>
          /\ ~DRY_RUN
          /\ item'.calls = 0
          /\ DOMAIN item'.analyzing = DOMAIN item'.subscribers
          /\ \A k \in DOMAIN item'.subscribers :
               status'[item'.subscribers[k].pageId] =
                 IF item'.analyzing[k] THEN "Analyzing"
                 ELSE status[item'.subscribers[k].pageId]
          /\ metrics' = metrics]_vars
  /\ []((item.index >= 0 /\ item.calls > 0) =>
          DOMAIN item.analyzing = DOMAIN item.subscribers)
  /\ []((pc = "analyze" /\ item.calls = 0) => ENABLED AnalyzeAttempt)

(* an "Analyzing" write of the subject failed, the analysis was made all the
   same and succeeded, and nothing was counted as failed *)
C34_Witness ==
  /\ pc = "broadcast"
  /\ item.analysis = "ok"
  /\ item.calls = 1
  /\ \E k \in ItemSubscribers : ~item.analyzing[k] /\ PageStatus(item.subscribers, k) # "Analyzing"
  /\ metrics.analyzed = 1
  /\ metrics.failed = 0

(* C35: once a queue is stored, its items, totalCount, createdAt, chunkSize
   and market context do not change as long as it is stored:
   updateProcessedCount changes processedCount and lastChunkAt only, and an
   invocation that finds the queue runs neither the collector nor the queue
   builder: it works on the stored items. *)
C35_StoredQueueFrame ==
  /\ [][(store.present /\ store'.present) =>
          /\ store'.items = store.items
          /\ store'.totalCount = store.totalCount
          /\ store'.createdAt = store.createdAt
          /\ store'.chunkSize = store.chunkSize
          /\ store'.marketContext = store.marketContext]_vars
  /\ [][store.present => (collections' = collections /\ collected' = collected)]_vars
  /\ [][(pc = "idle" /\ pc' # "idle" /\ store.present) =>
          (mode' = "resume" /\ queue' = store.items)]_vars

(* a second chunk has been worked from the stored queue and the cursor and
   lastChunkAt have been written again, after one collection *)
C35_Witness ==
  /\ store.present
  /\ mode = "resume"
  /\ pc = "check"
  /\ chunkNo = 2
  /\ store.processedCount > CHUNK_SIZE
  /\ store.lastChunkAt > store.createdAt + 1
  /\ collections = 1
  /\ queue = store.items

(* the place of a tier in the order Pro < Analyst < Starter < Free, and 99
   for any other tier *)
TierIndex(tier) ==
  CASE tier = "Pro" -> 1
    [] tier = "Analyst" -> 2
    [] tier = "Starter" -> 3
    [] tier = "Free" -> 4
    [] OTHER -> 99

(* a subscriber of the given tier that could be added to a subject *)
OneMore(tier) ==
  [userId |-> 0, tier |-> tier, pageId |-> <<0, 1>>, stockHistoryDbId |-> TRUE]

(* C36: the priority of each queue item is the least tier index among its
   subscribers under the order Pro(1) < Analyst(2) < Starter(3) < Free(4),
   a tier that is not one of these counting as 99; adding a subscriber to a
   subject never makes its priority number larger. *)
C36_PriorityIsBestTier ==
  pc = "process" =>
    \A a \in 1..Len(queue) :
      LET subs == queue[a].subscribers
      IN /\ subs # <<>>
         /\ \E k \in 1..Len(subs) : queue[a].priority = TierIndex(subs[k].tier)
         /\ \A k \in 1..Len(subs) : queue[a].priority <= TierIndex(subs[k].tier)
         /\ \A t \in TierNames \ {""} :
              /\ HighestPriority(Append(subs, OneMore(t))) <= queue[a].priority
              /\ HighestPriority(Append(subs, OneMore(t))) \in {queue[a].priority, TierIndex(t)}

(* one subject whose only subscriber has a tier the table does not know and
   ranks 99, and one where such a subscriber stands beside a user without
   tier, who counts as Free, and the subject ranks as Free *)
C36_Witness ==
  /\ pc = "process"
  /\ Len(queue) = 2
  /\ queue[1].priority = 4
  /\ Len(queue[1].subscribers) = 2
  /\ queue[1].subscribers[1].tier = "Enterprise"
  /\ queue[1].subscribers[2].tier = "Free"
  /\ \E u \in 1..Len(users) : users[u].subscriptionTier = ""
  /\ queue[2].priority = 99
  /\ Len(queue[2].subscribers) = 1

(* the indices processQueue was asked to work on in the running invocation *)
ChunkIndices == startIndex..(endIndex - 1)

(* the subscribers of the queue items at the indices of S, counted *)
RECURSIVE SubscribersOver(_)
SubscribersOver(S) ==
  IF S = {} THEN 0
  ELSE LET j == CHOOSE x \in S : TRUE
       IN Len(ItemAt(j).subscribers) + SubscribersOver(S \ {j})

(* C37: on return from every processQueue call, analyzed + failed is the
   number of items of the chunk, min(startIndex + maxItems, queue length)
   - startIndex; totalBroadcasts = successfulBroadcasts + failedBroadcasts;
   and outside dry-run mode totalBroadcasts is the sum of the subscriber
   counts of the subjects counted in analyzed, each added when the subject
   was counted. *)
C37_MetricsOnReturn ==
  /\ [](pc = "update" =>
          /\ endIndex = Min2(startIndex + itemsToProcess, Len(queue))
          /\ metrics.analyzed + metrics.failed = endIndex - startIndex
          /\ metrics.totalBroadcasts
               = metrics.successfulBroadcasts + metrics.failedBroadcasts
          /\ DRY_RUN => metrics.totalBroadcasts = 0
          /\ ~DRY_RUN =>
               \E A \in SUBSET ChunkIndices :
                 /\ Cardinality(A) = metrics.analyzed
                 /\ SubscribersOver(A) = metrics.totalBroadcasts
                 /\ \A j \in ChunkIndices \ A : ItemAt(j).ticker \in failedSubjects)
  /\ [][(pc \in {"process", "analyze", "broadcast", "broadcast_error", "history"}
          /\ ~DRY_RUN) =>
          /\ metrics'.analyzed # metrics.analyzed =>
               (metrics'.analyzed = metrics.analyzed + 1 /\ pc' = "broadcast")
          /\ metrics'.totalBroadcasts # metrics.totalBroadcasts =>
               /\ pc = "broadcast"
               /\ metrics'.totalBroadcasts
                    = metrics.totalBroadcasts + Len(ItemAt(item.index).subscribers)
          /\ (pc = "broadcast" /\ pc' # "broadcast") =>
               metrics'.totalBroadcasts > metrics.totalBroadcasts]_vars

(* processQueue has returned from a chunk of two subjects, one analyzed and
   broadcast to two subscribers of which one was rejected, one failed *)
C37_Witness ==
  /\ pc = "update"
  /\ ~DRY_RUN
  /\ endIndex - startIndex = 2
  /\ metrics.analyzed = 1
  /\ metrics.failed = 1
  /\ metrics.totalBroadcasts = 2
  /\ metrics.successfulBroadcasts = 1
  /\ metrics.failedBroadcasts = 1

(* the retry branch has computed its delay *)
Delayed == backoff.delayMs # -1

(* the suggested seconds rounded up and capped at 60, in milliseconds *)
SuggestedMs(tenths) ==
  LET up == IF tenths % 10 = 0 THEN tenths \div 10 ELSE tenths \div 10 + 1
  IN (IF up > 60 THEN 60 ELSE up) * 1000

(* 2 s before the 2nd attempt, 4 s before the 3rd *)
ScheduleMs(attempt) == IF attempt = 0 THEN 2000 ELSE 4000

(* C38 as stated: the delay before a retry is the server-suggested number
   of seconds, rounded up and capped at 60, whenever the error text carries
   one, and otherwise 2 s before the 2nd attempt and 4 s before the 3rd;
   for whole-second inputs it is at most 60 s and not 0. *)
C38_AsStated ==
  Delayed =>
    /\ backoff.error.kind = "seconds" =>
         backoff.delayMs = SuggestedMs(backoff.error.tenths)
    /\ backoff.error.kind = "none" => backoff.delayMs = ScheduleMs(backoff.attempt)
    /\ (backoff.error.kind = "seconds" /\ backoff.error.tenths % 10 = 0) =>
         (backoff.delayMs <= 60000 /\ backoff.delayMs # 0)

(* C38: the delay before a retry is the server-suggested number of seconds,
   rounded up and capped at 60, when the error text carries one that is
   greater than 0; when it carries none, a suggestion of 0 seconds or a
   number that cannot be read, the delay is 2 s before the 2nd attempt and
   4 s before the 3rd; it is never more than 60 s and never 0. *)
C38_RetryDelay ==
  Delayed =>
    /\ (backoff.error.kind = "seconds" /\ backoff.error.tenths > 0) =>
         backoff.delayMs = SuggestedMs(backoff.error.tenths)
    /\ (backoff.error.kind = "seconds" /\ backoff.error.tenths = 0) =>
         backoff.delayMs = ScheduleMs(backoff.attempt)
    /\ backoff.error.kind \in {"none", "dots"} =>
         backoff.delayMs = ScheduleMs(backoff.attempt)
    /\ backoff.delayMs <= 60000
    /\ backoff.delayMs > 0

(* a suggestion of more than a minute before the 3rd attempt: one minute *)
C38_Witness ==
  /\ Delayed
  /\ backoff.attempt = 1
  /\ backoff.error.kind = "seconds"
  /\ backoff.error.tenths = 605
  /\ backoff.delayMs = 60000

(* the invocations the bound leaves are enough to work through the queue
   that the first invocation of the day has just stored *)
FirstQueueStored ==
  /\ store.present
  /\ mode = "first_run"
  /\ inv = 1
  /\ CeilDiv(Len(queue), CHUNK_SIZE) <= MaxInvocations

(* the queue is deleted in this step *)
QueueDeleted == store.present /\ ~store'.present

(* C39: for a stored queue of N items and a chunk size C >= 1, with the
   invocations going on, every external call returning and no store
   operation failing, every processQueue call terminates, and the queue is
   deleted in the end, by invocation number ceil(N/C) counted from the one
   that stored it, with processedCount = totalCount. *)
C39_CycleCompletes ==
  /\ (pc = "process") ~> (pc = "update")
  /\ FirstQueueStored ~> ~store.present
  /\ [][QueueDeleted =>
          /\ store.processedCount = store.totalCount
          /\ chunkNo = CeilDiv(store.totalCount, CHUNK_SIZE)]_vars

(* C39 for the queues that have a subject: the liveness, and the number of
   invocations where the queue is not empty *)
C39_CompletesWhenNotEmpty ==
  /\ (pc = "process") ~> (pc = "update")
  /\ FirstQueueStored ~> ~store.present
  /\ [][QueueDeleted =>
          /\ store.processedCount = store.totalCount
          /\ store.totalCount > 0 => chunkNo = CeilDiv(store.totalCount, CHUNK_SIZE)
          /\ store.totalCount = 0 => chunkNo = 1]_vars

====
